---- MODULE Spec2Model ----
(***************************************************************************)
(* Model of the xMoney API SDK: the request pipeline of XMoneyClient       *)
(* (src/src/core/client.ts), the hosted-checkout encoder and decoder of    *)
(* CheckoutResource (src/src/resources/checkout.ts) and PaginatedList      *)
(* (src/src/core/pagination.ts).                                           *)
(*                                                                         *)
(* JavaScript values are encoded as follows.  An optional value is a       *)
(* sequence: <<>> is undefined and <<v>> is the value v.  An object is a   *)
(* function from its present keys to their values; a key that is absent    *)
(* is not in the DOMAIN.  A string that the code builds by concatenation   *)
(* is the sequence of its pieces.                                          *)
(***************************************************************************)
EXTENDS Integers, Sequences, FiniteSets, TLC

VARIABLES
    config,     \* XMoneyClient.config, set by the constructor
    active,     \* the request() calls that exist in this behaviour
    req,        \* per request() call: its locals and its position
    coActive,   \* the checkout create() calls that exist in this behaviour
    co,         \* per create() call: its argument, its result, the provider calls
    deActive,   \* the checkout decrypt() calls that exist in this behaviour
    de,         \* per decrypt() call: its argument, its locals, its result
    list,       \* the PaginatedList under study: data, pagination, fetchNextPage
    iterActive, \* the asynchronous iterations of list that exist in this behaviour
    iter,       \* per asynchronous iteration: its locals and its position
    gpActive,   \* the getPage() calls on list that exist in this behaviour
    gp,         \* per getPage() call: its argument, its position, its result
    enActive,   \* the request() calls whose URL and body are built in this behaviour
    en,         \* per such call: its options, the query pairs and form pairs it emits
    osActive,   \* the createOrderWithSavedCard calls made in this behaviour
    os          \* per such call: its input, its requests, their responses, its end

requestVars == <<active, req>>
checkoutVars == <<coActive, co>>
decryptVars == <<deActive, de>>
pagingVars == <<list, iterActive, iter, gpActive, gp>>
encodeVars == <<enActive, en>>
orderVars == <<osActive, os>>

vars == <<config, requestVars, checkoutVars, decryptVars, pagingVars, encodeVars, orderVars>>

(***************************************************************************)
(* Bounds                                                                  *)
(***************************************************************************)
MaxRetriesBound == 6
MaxSiteLen == 2
ReqIds == {1, 2}
CoIds == {1, 2}
MaxEnvelopeLen == 5
DeIds == {1}
MaxArrayLen == 2
EnIds == {1}
OsIds == {1}
MaxPages == 3
MaxItems == 2
MaxTake == 3
MaxOrderRequests == 3
IterIds == {1, 2}
GpIds == {1}

(***************************************************************************)
(* JavaScript helpers                                                      *)
(***************************************************************************)
Undefined == <<>>
EmptyObj == [k \in {} |-> Undefined]

\* { ...a, ...b }
Spread(a, b) ==
    [k \in (DOMAIN a) \cup (DOMAIN b) |-> IF k \in DOMAIN b THEN b[k] ELSE a[k]]

\* obj[key], undefined when the key is absent
Get(obj, key) == IF key \in DOMAIN obj THEN obj[key] ELSE Undefined

NumTruthy(v) == v # Undefined /\ v[1] # 0
StrTruthy(v) == v # Undefined /\ v[1] # ""

Min(a, b) == IF a < b THEN a ELSE b

(***************************************************************************)
(* XMoneyError and the other errors that travel through request()          *)
(***************************************************************************)
NoError ==
    [type |-> "none", message |-> "", statusCode |-> Undefined,
     code |-> Undefined, errors |-> Undefined, at |-> 0]

\* new XMoneyError(message, details), created during transport call `at`
XMoneyError(message, details, at) ==
    [type |-> "XMoneyError", message |-> message,
     statusCode |-> Get(details, "statusCode"),
     code |-> Get(details, "code"),
     errors |-> Get(details, "errors"), at |-> at]

\* any error that is not an XMoneyError (Error, SyntaxError, TypeError)
OtherError(type, message, at) ==
    [type |-> type, message |-> message, statusCode |-> Undefined,
     code |-> Undefined, errors |-> Undefined, at |-> at]

(***************************************************************************)
(* The constructor                                                         *)
(***************************************************************************)
\* a host string is the concatenation of a scheme prefix ("" when there is
\* none), a host name and an optional port
HostString(scheme, name, port) == [scheme |-> scheme, name |-> name, port |-> port]

defaultConfig ==
    [protocol |-> <<"https">>, host |-> <<HostString("", "api.xmoney.com", Undefined)>>,
     timeout |-> <<80000>>, maxRetries |-> <<3>>]

\* the HTTP client and the platform provider a caller supplies; the platform
\* provider is one of the two of the repository, nodePlatformProvider and
\* webPlatformProvider
Providers == [httpClient |-> <<"httpClient">>, platformProvider |-> <<"nodePlatformProvider">>]

\* the config arguments a caller may pass: maxRetries absent, undefined or n;
\* host absent, a bare host name or a URL, with or without the port that is
\* the default of its scheme; either platform provider; an object without
\* HTTP client or platform provider; a string, the API key, kept under the
\* key "string"
ConfigInputs ==
    { Spread(Spread(Spread([apiKey |-> <<k>>], t), m), Providers) :
        k \in {"sk_a", "sk_b"},
        t \in {EmptyObj, [secureToken |-> <<"tok">>]},
        m \in {EmptyObj, [maxRetries |-> Undefined]}
              \cup {[maxRetries |-> <<n>>] : n \in 0..MaxRetriesBound} }
    \cup
    { Spread(Spread([apiKey |-> <<"sk_a">>, host |-> <<h>>], pr), Providers) :
        h \in { HostString("", "api.example.com", Undefined),
                HostString("https://", "custom.api.com", Undefined),
                HostString("https://", "custom.api.com", <<443>>),
                HostString("http://", "localhost", <<8080>>) },
        pr \in {EmptyObj, [protocol |-> <<"https">>, port |-> <<8443>>]} }
    \cup
    { Spread(Spread([apiKey |-> <<k>>], t),
             [httpClient |-> <<"httpClient">>, platformProvider |-> <<"webPlatformProvider">>]) :
        k \in {"sk_a", "sk_b"},
        t \in {EmptyObj, [secureToken |-> <<"tok">>]} }
    \cup
    { [apiKey |-> <<"sk_a">>],
      [apiKey |-> <<"sk_a">>, httpClient |-> <<"httpClient">>],
      [apiKey |-> <<"sk_a">>, platformProvider |-> <<"nodePlatformProvider">>],
      [string |-> <<"sk_a">>] }

\* config ?? fallback
Coalesce(v, fallback) == IF v # Undefined THEN v ELSE fallback

\* url.port ? Number(url.port) : undefined, for the URL parsed from a host
\* string: the URL keeps no port that is the default of its scheme
UrlPort(host) ==
    IF host.port = Undefined THEN Undefined
    ELSE IF host.scheme = "https://" /\ host.port = <<443>> THEN Undefined
    ELSE IF host.scheme = "http://" /\ host.port = <<80>> THEN Undefined
    ELSE host.port

\* this.config as the constructor assigns it
FinalConfig(input) ==
    IF DOMAIN input = {"string"}
    THEN Spread(defaultConfig, [apiKey |-> input.string])
    ELSE LET host == Get(input, "host")
         IN  IF host # Undefined /\ host[1].scheme \in {"http://", "https://"}
             THEN Spread(Spread(defaultConfig, input),
                      [host |-> <<HostString("", host[1].name, Undefined)>>,
                       protocol |-> Coalesce(Get(input, "protocol"),
                                             <<IF host[1].scheme = "https://"
                                               THEN "https" ELSE "http">>),
                       port |-> Coalesce(Get(input, "port"), UrlPort(host[1]))])
             ELSE Spread(defaultConfig, input)

\* new XMoneyClient(input): the configuration of the client, or the message
\* of the error the constructor throws
Constructor(input) ==
    LET cfg == FinalConfig(input)
    IN  IF Get(cfg, "httpClient") = Undefined
        THEN [error |-> "HTTP client is required", config |-> cfg]
        ELSE IF Get(cfg, "platformProvider") = Undefined
        THEN [error |-> "Platform provider is required", config |-> cfg]
        ELSE [error |-> "", config |-> cfg]

(***************************************************************************)
(* The transport (HttpClient.request) and the gateway behind it            *)
(***************************************************************************)
Statuses == {0, 200, 400, 499, 500}

\* response bodies: not JSON at all, JSON null, or a JSON object
Bodies ==
    { [json |-> "text", message |-> Undefined, code |-> Undefined, error |-> Undefined],
      [json |-> "null", message |-> Undefined, code |-> Undefined, error |-> Undefined],
      [json |-> "object", message |-> Undefined, code |-> Undefined, error |-> Undefined],
      [json |-> "object", message |-> <<"">>, code |-> <<0>>, error |-> Undefined],
      [json |-> "object", message |-> <<"Bad request">>, code |-> <<1001>>,
       error |-> <<"Validation:email">>] }

NoOutcome == [kind |-> "none"]

\* what one transport invocation can end in
Outcomes ==
    { [kind |-> "response", status |-> s, body |-> b] : s \in Statuses, b \in Bodies }
    \cup { [kind |-> "throw", type |-> "Error", message |-> m, statusCode |-> Undefined] :
             m \in {"Network error", "Request timeout"} }
    \cup { [kind |-> "throw", type |-> "XMoneyError", message |-> "Transport error",
            statusCode |-> s] : s \in {Undefined, <<0>>, <<400>>, <<500>>} }

\* HttpResponse.ok as both transports compute it
ResponseOk(status) == status >= 200 /\ status < 300

(***************************************************************************)
(* request(): the query string and the form body                           *)
(*                                                                         *)
(* A value of a query or body object is a record [t, v, parts]: t is its   *)
(* type, v the pieces of its text when it is a primitive or a Date, parts  *)
(* its entries [k, val] when it is an array (k is "") or an object.        *)
(***************************************************************************)
Entry(key, value) == [k |-> key, val |-> value]

JsNull == [t |-> "null", v |-> <<>>, parts |-> <<>>]
JsUndefined == [t |-> "undefined", v |-> <<>>, parts |-> <<>>]
JsBoolean(b) == [t |-> "boolean", v |-> <<IF b THEN "true" ELSE "false">>, parts |-> <<>>]
JsNumber(digits) == [t |-> "number", v |-> <<digits>>, parts |-> <<>>]
JsString(chars) == [t |-> "string", v |-> chars, parts |-> <<>>]
JsDate(iso) == [t |-> "date", v |-> <<iso>>, parts |-> <<>>]
JsArray(elements) ==
    [t |-> "array", v |-> <<>>,
     parts |-> [n \in 1..Len(elements) |-> Entry("", elements[n])]]
JsObject(entries) == [t |-> "object", v |-> <<>>, parts |-> entries]

Nullish(value) == value.t \in {"null", "undefined"}

\* String(value), as a sequence of pieces; an array joins the texts of its
\* elements with commas, null and undefined elements giving no text
RECURSIVE StringOf(_)
StringOf(value) ==
    IF value.t = "null" THEN <<"null">>
    ELSE IF value.t = "undefined" THEN <<"undefined">>
    ELSE IF value.t = "object" THEN <<"[object Object]">>
    ELSE IF value.t = "date" THEN <<"Date ">> \o value.v
    ELSE IF value.t = "array"
    THEN IF value.parts = <<>> THEN <<>>
         ELSE (IF Nullish(Head(value.parts).val) THEN <<>>
               ELSE StringOf(Head(value.parts).val))
              \o (IF Len(value.parts) = 1 THEN <<>>
                  ELSE <<",">> \o StringOf([value EXCEPT !.parts = Tail(@)]))
    ELSE value.v

\* DateTransformer.toApi(value): a Date becomes its API string, arrays and
\* nested objects are rebuilt with their parts transformed
RECURSIVE ToApi(_)
ToApi(value) ==
    IF value.t = "date" THEN JsString(value.v \o <<"+00:00">>)
    ELSE IF value.t \in {"array", "object"}
    THEN [value EXCEPT !.parts = [n \in 1..Len(value.parts) |->
                                    Entry(value.parts[n].k, ToApi(value.parts[n].val))]]
    ELSE value

\* the pairs the query loop appends for the entries of a query object
RECURSIVE QueryPairs(_)
QueryPairs(entries) ==
    IF entries = <<>> THEN <<>>
    ELSE LET key == Head(entries).k
             value == Head(entries).val
         IN  (IF Nullish(value) THEN <<>>
              ELSE IF value.t = "array"
              THEN [n \in 1..Len(value.parts) |->
                      <<(<<key>>), StringOf(value.parts[n].val)>>]
              ELSE << <<(<<key>>), StringOf(value)>> >>)
             \o QueryPairs(Tail(entries))

\* encode(obj, prefix) of encodeFormData: the pairs appended for the entries
\* of obj; prefix is the sequence of the pieces of the key so far, and an
\* empty prefix text is falsy
RECURSIVE Encode(_, _)
Encode(entries, prefix) ==
    IF entries = <<>> THEN <<>>
    ELSE LET key == Head(entries).k
             value == Head(entries).val
             emptyText == \A n \in 1..Len(prefix) : prefix[n] = ""
             fullKey == IF emptyText THEN <<key>> ELSE prefix \o <<"[", key, "]">>
         IN  (IF Nullish(value) THEN <<>>
              ELSE IF value.t = "array"
              THEN [n \in 1..Len(value.parts) |->
                      <<fullKey \o <<"[]">>, StringOf(value.parts[n].val)>>]
              ELSE IF value.t = "object"
              THEN Encode(value.parts, fullKey)
              ELSE IF value.t = "date"
              THEN <<>>
              ELSE << <<fullKey, StringOf(value)>> >>)
             \o Encode(Tail(entries), prefix)

\* encodeFormData(data)
EncodeFormData(data) == Encode(data, <<>>)

(***************************************************************************)
(* request(): the part before the retry loop                               *)
(***************************************************************************)
Bearer(apiKey) == <<"Bearer ", apiKey>>

BodyMethods == {"POST", "PUT", "PATCH", "DELETE"}

\* the RequestOptions a caller may pass: a GET without query and body, a GET
\* with a query (a Date, an array with a null element, a null) and a body,
\* a POST with a body (a string and a Date)
OptionInputs ==
    { [method |-> mqb[1], query |-> mqb[2], body |-> mqb[3], headers |-> h] :
        mqb \in { <<"GET", Undefined, Undefined>>,
                  <<"GET",
                    << <<Entry("from", JsDate("2024-01-15T10:30:00")),
                         Entry("tags", JsArray(<<JsString(<<"x">>), JsNull>>)),
                         Entry("cursor", JsNull)>> >>,
                    << <<Entry("name", JsString(<<"John">>))>> >> >>,
                  <<"POST", Undefined,
                    << <<Entry("name", JsString(<<"John">>)),
                         Entry("expires", JsDate("2024-01-15T10:30:00"))>> >> >> },
        h \in { EmptyObj,
                [XCustomHeader |-> <<"custom-value">>],
                [Authorization |-> <<"Bearer ", "other">>],
                [Authorization |-> <<"Basic dXNlcg==">>, XCustomHeader |-> <<"custom-value">>] } }

BuildHeaders(cfg, options) ==
    LET base == Spread([Authorization |-> Bearer(cfg.apiKey[1])], options.headers)
        withToken == IF StrTruthy(Get(cfg, "secureToken"))
                     THEN Spread(base, [xSecureToken |-> cfg.secureToken])
                     ELSE base
    IN  IF options.body # Undefined /\ options.method \in BodyMethods
        THEN Spread(withToken, [ContentType |-> <<"application/x-www-form-urlencoded">>])
        ELSE withToken

\* const maxRetries = this.config.maxRetries || 3
EffectiveMaxRetries(cfg) ==
    IF NumTruthy(Get(cfg, "maxRetries")) THEN cfg.maxRetries[1] ELSE 3

(***************************************************************************)
(* request(): the retry loop                                               *)
(***************************************************************************)
\* what the try block does with a completed transport call: the value it
\* returns, or the error it throws into the catch block
TryBlock(o, at) ==
    IF o.kind = "throw"
    THEN [ok |-> FALSE, data |-> Undefined,
          error |-> IF o.type = "XMoneyError"
                    THEN XMoneyError(o.message, [statusCode |-> o.statusCode], at)
                    ELSE OtherError(o.type, o.message, at)]
    ELSE IF o.body.json = "text"
    THEN [ok |-> FALSE, data |-> Undefined,
          error |-> OtherError("SyntaxError", "Unexpected token", at)]
    ELSE IF ~ResponseOk(o.status)
    THEN IF o.body.json = "null"
         THEN [ok |-> FALSE, data |-> Undefined,
               error |-> OtherError("TypeError", "Cannot read properties of null", at)]
         ELSE [ok |-> FALSE, data |-> Undefined,
               error |-> XMoneyError(
                   IF StrTruthy(o.body.message) THEN o.body.message[1] ELSE "Request failed",
                   [statusCode |-> <<o.status>>, code |-> o.body.code, errors |-> o.body.error],
                   at)]
    ELSE [ok |-> TRUE, data |-> <<o.body>>, error |-> NoError]

\* variant: the threshold is 400, so 4xx errors are retried
IsClientError_Below400(e) ==
    /\ e.type = "XMoneyError"
    /\ NumTruthy(e.statusCode)
    /\ e.statusCode[1] < 400

\* variant: the comparison is <=, so a 500 is treated as a client error
IsClientError_UpTo500(e) ==
    /\ e.type = "XMoneyError"
    /\ NumTruthy(e.statusCode)
    /\ e.statusCode[1] <= 500

\* error instanceof XMoneyError && statusCode && statusCode < 500
IsClientError(e) ==
    /\ e.type = "XMoneyError"
    /\ NumTruthy(e.statusCode)
    /\ e.statusCode[1] < 500

\* variant: the delay is not capped
BackoffDelay_NoCap(attempt) == 1000 * 2^(attempt - 1)

\* Math.min(1000 * 2 ** (attempt - 1), 10000)
BackoffDelay(attempt) == Min(1000 * 2^(attempt - 1), 10000)

NoTransportRequest ==
    [method |-> "", protocol |-> Undefined, host |-> Undefined, port |-> Undefined,
     query |-> <<>>, headers |-> EmptyObj, body |-> Undefined, timeout |-> Undefined]

\* options is the caller's object; queryPairs, headers and body are what the
\* call builds from it
IdleReq ==
    [pc |-> "idle",
     options |-> [method |-> "GET", query |-> Undefined, body |-> Undefined,
                  headers |-> EmptyObj],
     queryPairs |-> <<>>, headers |-> EmptyObj, body |-> Undefined,
     maxRetries |-> 0, attempt |-> 0,
     calls |-> 0, sent |-> NoTransportRequest, outcome |-> NoOutcome,
     lastError |-> NoError, delays |-> <<>>, failures |-> 0,
     result |-> Undefined, error |-> NoError]

\* request(options) up to the first evaluation of the loop condition, for
\* options out of optionInputs: the dates are transformed, the query pairs
\* are appended to the path, the headers are built and the body is
\* form-encoded, all in objects of the call
RequestFrom(r, optionInputs) ==
    /\ req[r].pc = "idle"
    /\ \E options \in optionInputs :
         LET transformedOptions ==
               [options EXCEPT
                  !.query = IF @ = Undefined THEN Undefined
                            ELSE <<ToApi(JsObject(@[1])).parts>>,
                  !.body = IF @ = Undefined THEN Undefined
                           ELSE <<ToApi(JsObject(@[1])).parts>>]
         IN  req' = [req EXCEPT ![r] =
                   [@ EXCEPT !.pc = "loop",
                             !.options = options,
                             !.queryPairs = IF transformedOptions.query # Undefined
                                            THEN QueryPairs(transformedOptions.query[1])
                                            ELSE <<>>,
                             !.headers = BuildHeaders(config, transformedOptions),
                             !.body = IF /\ transformedOptions.body # Undefined
                                         /\ transformedOptions.method \in BodyMethods
                                      THEN <<EncodeFormData(transformedOptions.body[1])>>
                                      ELSE Undefined,
                             !.maxRetries = EffectiveMaxRetries(config),
                             !.attempt = 1]]
    /\ UNCHANGED <<config, encodeVars, orderVars, active, checkoutVars, decryptVars, pagingVars>>

\* variant: DateTransformer.toApi transforms the caller's query and body in
\* place
Request_InPlace(r) ==
    /\ req[r].pc = "idle"
    /\ \E options \in OptionInputs :
         LET transformedOptions ==
               [options EXCEPT
                  !.query = IF @ = Undefined THEN Undefined
                            ELSE <<ToApi(JsObject(@[1])).parts>>,
                  !.body = IF @ = Undefined THEN Undefined
                           ELSE <<ToApi(JsObject(@[1])).parts>>]
         IN  req' = [req EXCEPT ![r] =
                   [@ EXCEPT !.pc = "loop",
                             !.options = transformedOptions,
                             !.queryPairs = IF transformedOptions.query # Undefined
                                            THEN QueryPairs(transformedOptions.query[1])
                                            ELSE <<>>,
                             !.headers = BuildHeaders(config, transformedOptions),
                             !.body = IF /\ transformedOptions.body # Undefined
                                         /\ transformedOptions.method \in BodyMethods
                                      THEN <<EncodeFormData(transformedOptions.body[1])>>
                                      ELSE Undefined,
                             !.maxRetries = EffectiveMaxRetries(config),
                             !.attempt = 1]]
    /\ UNCHANGED <<config, encodeVars, orderVars, active, checkoutVars, decryptVars, pagingVars>>

\* request(options) for every options object a caller may pass
Request(r) == RequestFrom(r, OptionInputs)

\* the HttpRequestOptions of one transport invocation; query stands for the
\* query string of its path
TransportRequest(cfg, q) ==
    [method |-> q.options.method,
     protocol |-> cfg.protocol,
     host |-> cfg.host,
     port |-> IF NumTruthy(Get(cfg, "port")) THEN cfg.port
              ELSE <<IF cfg.protocol = <<"https">> THEN 443 ELSE 80>>,
     query |-> q.queryPairs,
     headers |-> q.headers,
     body |-> q.body,
     timeout |-> cfg.timeout]

\* attempt <= maxRetries holds: the transport is invoked
Invoke(r) ==
    /\ req[r].pc = "loop"
    /\ req[r].attempt <= req[r].maxRetries
    /\ req' = [req EXCEPT ![r] =
                 [@ EXCEPT !.pc = "await",
                           !.calls = @ + 1,
                           !.sent = TransportRequest(config, req[r]),
                           !.outcome = NoOutcome]]
    /\ UNCHANGED <<config, encodeVars, orderVars, active, checkoutVars, decryptVars, pagingVars>>

\* what request q does with outcome o of its transport call once the
\* outcome is known in full: the rest of the try block and the catch block,
\* up to the next await or the end of the call.  failures only records how
\* many transport calls failed.
TryCatch(q, o) ==
    LET t == TryBlock(o, q.calls)
        a == q.attempt
        seen == [q EXCEPT !.outcome = o]
        failed == [seen EXCEPT !.failures = @ + 1, !.lastError = t.error]
    IN  IF t.ok
        THEN [seen EXCEPT !.pc = "resolved", !.result = t.data]
        ELSE IF IsClientError(t.error)
        THEN [failed EXCEPT !.pc = "rejected", !.error = t.error]
        ELSE IF a < q.maxRetries
        THEN [failed EXCEPT !.pc = "backoff",
                            !.delays = Append(@, <<a, BackoffDelay(a)>>)]
        ELSE [failed EXCEPT !.pc = "loop", !.attempt = a + 1]

\* the transport call settles with one of outcomes: a rejection goes to the
\* catch block at once, a response is asked for its body (response.json())
\* and the call waits again
CompleteFrom(r, outcomes) ==
    /\ req[r].pc = "await"
    /\ \E o \in outcomes :
         req' = [req EXCEPT ![r] =
                   IF o.kind = "response"
                   THEN [@ EXCEPT !.pc = "json", !.outcome = o]
                   ELSE TryCatch(@, o)]
    /\ UNCHANGED <<config, encodeVars, orderVars, active, checkoutVars, decryptVars, pagingVars>>

\* the transport call settles in any way the transport allows
Complete(r) == CompleteFrom(r, Outcomes)

\* variant: lastError is a field of the client, shared by its requests
JsonSettles_SharedLastError(r) ==
    /\ req[r].pc = "json"
    /\ LET next == TryCatch(req[r], req[r].outcome)
       IN  req' = [x \in ReqIds |->
                     IF x = r THEN next
                     ELSE IF x \in active /\ next.pc # "resolved"
                     THEN [req[x] EXCEPT !.lastError = next.lastError]
                     ELSE req[x]]
    /\ UNCHANGED <<config, encodeVars, orderVars, active, checkoutVars, decryptVars, pagingVars>>

\* response.json() settles: the body is parsed or the parse fails; the rest
\* of the try block and the catch block run
JsonSettles(r) ==
    /\ req[r].pc = "json"
    /\ req' = [req EXCEPT ![r] = TryCatch(@, req[r].outcome)]
    /\ UNCHANGED <<config, encodeVars, orderVars, active, checkoutVars, decryptVars, pagingVars>>

\* the backoff timer fires; attempt++ and the loop condition is next
BackoffElapsed(r) ==
    /\ req[r].pc = "backoff"
    /\ req' = [req EXCEPT ![r] = [@ EXCEPT !.pc = "loop", !.attempt = @ + 1]]
    /\ UNCHANGED <<config, encodeVars, orderVars, active, checkoutVars, decryptVars, pagingVars>>

\* the loop is left: throw lastError
ThrowLast(r) ==
    /\ req[r].pc = "loop"
    /\ ~(req[r].attempt <= req[r].maxRetries)
    /\ req' = [req EXCEPT ![r] = [@ EXCEPT !.pc = "rejected", !.error = req[r].lastError]]
    /\ UNCHANGED <<config, encodeVars, orderVars, active, checkoutVars, decryptVars, pagingVars>>

(***************************************************************************)
(* Hosted checkout: CheckoutResource.create                                *)
(*                                                                         *)
(* A string the code inspects character by character (the public key) is  *)
(* a sequence of one-character strings.  A property value is a record      *)
(* [t, v]: t is "undefined", "string", "boolean" or "object" and v is the  *)
(* sequence of the value's pieces.  An object whose key order matters is   *)
(* the sequence of its <<key, value>> entries in insertion order.          *)
(***************************************************************************)
UndefinedValue == [t |-> "undefined", v |-> <<>>]
StringValue(chars) == [t |-> "string", v |-> chars]
BooleanValue(b) == [t |-> "boolean", v |-> <<IF b THEN "true" ELSE "false">>]
ObjectValue(name) == [t |-> "object", v |-> <<name>>]

Keys(obj) == { obj[i][1] : i \in 1..Len(obj) }

\* obj[key], undefined when the key is absent
Prop(obj, key) ==
    IF key \in Keys(obj)
    THEN (CHOOSE e \in { obj[i] : i \in 1..Len(obj) } : e[1] = key)[2]
    ELSE UndefinedValue

\* { ...a, ...b } with insertion order: the keys of a keep their place and
\* take the value b gives them, the other keys of b follow in b's order
SpreadOrdered(a, b) ==
    [i \in 1..Len(a) |-> IF a[i][1] \in Keys(b) THEN <<a[i][1], Prop(b, a[i][1])>> ELSE a[i]]
    \o SelectSeq(b, LAMBDA e : e[1] \notin Keys(a))

\* JSON.stringify of an object: its entries in insertion order, without the
\* entries whose value is undefined
JsonStringify(obj) == SelectSeq(obj, LAMBDA e : e[2].t # "undefined")

\* buffer.from(text, 'utf8') and buffer.toString(bytes, 'base64'): one-to-one
\* and the same in both platform providers
Utf8Bytes(text) == [utf8 |-> text]
Base64String(bytes) == [base64 |-> bytes]

\* variant: the digest of an HMAC that was never fed the message
HmacSha512Digest_NoUpdate(platform, key, message) ==
    IF platform = "webPlatformProvider"
    THEN [error |-> OtherError("Error",
                       "Web Crypto HMAC requires async implementation. Use WebCryptoAsync instead.",
                       0),
          digest |-> <<>>]
    ELSE [error |-> NoError, digest |-> <<[hmacKey |-> key, hmacMessage |-> <<>>]>>]

\* createHmacSha512(key), update(message) and digest() of a platform
\* provider: with the Node provider the digest, one-to-one in key and
\* message; with the web provider digest() throws
HmacSha512Digest(platform, key, message) ==
    IF platform = "webPlatformProvider"
    THEN [error |-> OtherError("Error",
                       "Web Crypto HMAC requires async implementation. Use WebCryptoAsync instead.",
                       0),
          digest |-> <<>>]
    ELSE [error |-> NoError, digest |-> <<[hmacKey |-> key, hmacMessage |-> message]>>]

PkTest == <<"p", "k", "_", "t", "e", "s", "t", "_">>
PkLive == <<"p", "k", "_", "l", "i", "v", "e", "_">>
LineTerminators == {"\n", "\r", "U+2028", "U+2029"}

IsPrefix(p, s) == Len(s) >= Len(p) /\ SubSeq(s, 1, Len(p)) = p

\* publicKey.match(/^pk_(test|live)_(.+)$/): <<>> for null, else the groups
PublicKeyMatch(chars) ==
    LET rest == SubSeq(chars, Len(PkTest) + 1, Len(chars))
    IN  IF /\ (IsPrefix(PkTest, chars) \/ IsPrefix(PkLive, chars))
           /\ Len(rest) >= 1
           /\ \A i \in 1..Len(rest) : rest[i] \notin LineTerminators
        THEN <<SubSeq(chars, 4, 7), rest>>
        ELSE <<>>

\* generateChecksum(data): the base64 text of the HMAC of JSON.stringify(data)
\* under config.apiKey, or the error the provider throws
GenerateChecksum(cfg, data) ==
    LET hmac == HmacSha512Digest(cfg.platformProvider[1], cfg.apiKey, JsonStringify(data))
    IN  [error |-> hmac.error,
         checksum |-> IF hmac.error = NoError
                      THEN <<Base64String(hmac.digest[1])>> ELSE <<>>]

\* the suffixes tried after pk_<env>_
SiteChars == {"a", "_", "\n"}
SiteSuffixes == UNION { [1..n -> SiteChars] : n \in 0..MaxSiteLen }

\* the publicKey values a caller may pass
PublicKeyInputs ==
    { UndefinedValue,
      StringValue(<<>>),
      StringValue(<<"i", "n", "v", "a", "l", "i", "d">>),
      StringValue(<<"p", "k", "_", "t", "e", "s", "t">>) }
    \cup { StringValue(pre \o suf) :
             pre \in { PkTest, PkLive, <<"x">> \o PkTest,
                       <<"p", "k", "_", "s", "t", "a", "g", "i", "n", "g", "_">> },
             suf \in SiteSuffixes }

\* the params objects a caller may pass
ParamInputs ==
    { pk \o << <<"cardTransactionMode", StringValue(<<"auth">>)>>,
               <<"order", ObjectValue(o)>> >> \o sc \o si :
        pk \in { <<>> } \cup { << <<"publicKey", k>> >> : k \in PublicKeyInputs },
        o \in {"order_1", "order_2"},
        sc \in { <<>> } \cup { << <<"saveCard", v>> >> :
                   v \in {UndefinedValue, BooleanValue(TRUE), BooleanValue(FALSE)} },
        si \in { <<>>, << <<"siteId", StringValue(<<"o", "t", "h", "e", "r">>)>> >> } }

IdleCo ==
    [pc |-> "idle", params |-> <<>>, payload |-> <<>>, checksum |-> <<>>,
     error |-> NoError, providerCalls |-> <<>>]

\* create(params), a synchronous call, for one params object: it returns
\* {payload, checksum} or throws, its own XMoneyError for a refused public
\* key, the provider's error when a provider call throws
CreateWith(c, params) ==
    /\ co[c].pc = "idle"
    /\ LET publicKey == Prop(params, "publicKey")
           publicKeyMatch == PublicKeyMatch(publicKey.v)
           saveCard == Prop(params, "saveCard")
           data == SpreadOrdered(
                      << <<"siteId", StringValue(publicKeyMatch[2])>>,
                         <<"saveCard", IF saveCard.t = "undefined"
                                       THEN BooleanValue(FALSE) ELSE saveCard>> >>,
                      params)
           jsonText == JsonStringify(data)
           sum == GenerateChecksum(config, data)
       IN  co' = [co EXCEPT ![c] =
             IF publicKey.t = "undefined" \/ publicKey.v = <<>>
             THEN [@ EXCEPT !.pc = "failed", !.params = params,
                            !.error = XMoneyError("Public key is required for hosted checkout",
                                                  EmptyObj, 0)]
             ELSE IF publicKeyMatch = <<>>
             THEN [@ EXCEPT !.pc = "failed", !.params = params,
                            !.error = XMoneyError("Invalid public key format. Expected: pk_<env>_<key>",
                                                  EmptyObj, 0)]
             ELSE IF sum.error # NoError
             THEN [@ EXCEPT !.pc = "failed", !.params = params,
                            !.error = sum.error,
                            !.providerCalls =
                                <<"buffer.from", "buffer.toString", "crypto.createHmacSha512",
                                  "hmac.update", "hmac.digest">>]
             ELSE [@ EXCEPT !.pc = "created", !.params = params,
                            !.payload = <<Base64String(Utf8Bytes(jsonText))>>,
                            !.checksum = sum.checksum,
                            !.providerCalls =
                                <<"buffer.from", "buffer.toString", "crypto.createHmacSha512",
                                  "hmac.update", "hmac.digest", "buffer.toString">>]]
    /\ UNCHANGED <<config, encodeVars, orderVars, requestVars, coActive, decryptVars, pagingVars>>

\* create(params) for every params object a caller may pass
Create(c) == \E params \in ParamInputs : CreateWith(c, params)


(***************************************************************************)
(* CheckoutResource.decrypt                                                *)
(***************************************************************************)
\* the characters of an encrypted response: two base64 characters, the comma
EnvelopeChars == {"A", "B", ","}

\* the encryptedResponse strings a caller may pass
EnvelopeInputs == UNION { [1..n -> EnvelopeChars] : n \in 0..MaxEnvelopeLen }

\* the position of the first separator in s, 0 when there is none
IndexOf(s, sep) ==
    IF \E i \in 1..Len(s) : s[i] = sep
    THEN CHOOSE i \in 1..Len(s) : s[i] = sep /\ \A j \in 1..(i - 1) : s[j] # sep
    ELSE 0

\* String.prototype.split(sep): the pieces between the separators, all of them
RECURSIVE Split(_, _)
Split(s, sep) ==
    LET i == IndexOf(s, sep)
    IN  IF i = 0 THEN <<s>>
        ELSE <<SubSeq(s, 1, i - 1)>> \o Split(SubSeq(s, i + 1, Len(s)), sep)

\* String.prototype.split(sep, limit): the first limit pieces of split(sep)
SplitLimit(s, sep, limit) ==
    LET pieces == Split(s, sep)
    IN  SubSeq(pieces, 1, Min(limit, Len(pieces)))

\* array[i - 1] of a destructuring pattern: undefined past the end
ElementAt(array, i) == IF i <= Len(array) THEN <<array[i]>> ELSE Undefined

\* variant: only a missing segment is refused, an empty one is not
SegmentFalsy_MissingOnly(segment) == segment = Undefined

\* !segment for a string that may be undefined
SegmentFalsy(segment) == segment = Undefined \/ segment[1] = <<>>

\* the bits a base64 text stands for, six a character: A is 0, B is 1
RECURSIVE Base64Bits(_)
Base64Bits(text) ==
    IF text = <<>> THEN <<>>
    ELSE <<0, 0, 0, 0, 0, IF Head(text) = "A" THEN 0 ELSE 1>> \o Base64Bits(Tail(text))

\* buffer.from(text, 'base64') of a platform provider: Buffer.from of the
\* Node provider decodes every text; atob of the web provider throws an
\* InvalidCharacterError (a DOMException) for a text whose length leaves a
\* remainder of 1 when divided by 4.  The bytes are the bits of the text,
\* eight a byte, the bits left over dropped
Base64Decode(platform, text) ==
    IF platform = "webPlatformProvider" /\ Len(text) % 4 = 1
    THEN [error |-> OtherError("InvalidCharacterError",
                       "The string to be decoded is not correctly encoded.", 0),
          bytes |-> <<>>]
    ELSE LET bits == Base64Bits(text)
         IN  [error |-> NoError,
              bytes |-> [n \in 1..((6 * Len(text)) \div 8) |->
                           LET at == 8 * (n - 1)
                           IN  128 * bits[at + 1] + 64 * bits[at + 2] + 32 * bits[at + 3]
                               + 16 * bits[at + 4] + 8 * bits[at + 5] + 4 * bits[at + 6]
                               + 2 * bits[at + 7] + bits[at + 8]]]

\* the plaintext of the Node decipher
AesDecrypt(key, iv, data) == [aesKey |-> key, aesIv |-> iv, aesData |-> data]

\* what the decipher of a platform provider does.  Node provider:
\* createDecipheriv throws (IV or key of the wrong length), final() throws
\* (bad padding, or data that is no whole number of blocks), or the
\* plaintext is a JSON text or some other text; which of these depends on
\* the key and on the bytes, of which the model keeps short stand-ins, so
\* every one is allowed for every input.  Web provider:
\* createDecipherAes256Cbc throws.  A throw comes with the error raised.
DecipherOutcomes(platform) ==
    IF platform = "webPlatformProvider"
    THEN { [kind |-> "createThrows",
            error |-> OtherError("Error",
                         "Web Crypto decryption requires async implementation. Use WebCryptoAsync instead.",
                         0)] }
    ELSE { [kind |-> "createThrows", error |-> e] :
             e \in { OtherError("TypeError", "Invalid initialization vector", 0),
                     OtherError("RangeError", "Invalid key length", 0) } }
         \cup
         { [kind |-> "finalThrows", error |-> e] :
             e \in { OtherError("Error", "bad decrypt", 0),
                     OtherError("Error", "wrong final block length", 0) } }
         \cup
         { [kind |-> k, error |-> NoError] : k \in {"json", "text"} }

\* JSON.parse of a text that is a JSON text
JsonParse(text) == [parsed |-> text]

\* new XMoneyError('Invalid encrypted response format')
InvalidFormatError == XMoneyError("Invalid encrypted response format", EmptyObj, 0)

\* new XMoneyError('Failed to parse decrypted response')
ParseFailedError == XMoneyError("Failed to parse decrypted response", EmptyObj, 0)

IdleDe ==
    [pc |-> "idle", input |-> <<>>, ivBase64 |-> Undefined, encryptedBase64 |-> Undefined,
     decipher |-> "none", providerCalls |-> <<>>, decoded |-> <<>>,
     decrypted |-> Undefined, result |-> Undefined, error |-> NoError]

\* decrypt(encryptedResponse), a synchronous call, for one input and one
\* behaviour of the decipher; decoded lists the texts handed to the base64
\* decoder
DecryptWith(d, encryptedResponse, outcome) ==
    /\ de[d].pc = "idle"
    /\ LET platform == config.platformProvider[1]
           parts == SplitLimit(encryptedResponse, ",", 2)
           ivBase64 == ElementAt(parts, 1)
           encryptedBase64 == ElementAt(parts, 2)
           iv == Base64Decode(platform, ivBase64[1])
           encryptedData == Base64Decode(platform, encryptedBase64[1])
           decrypted == AesDecrypt(config.apiKey, iv.bytes, encryptedData.bytes)
           called == [de[d] EXCEPT !.input = encryptedResponse,
                               !.ivBase64 = ivBase64,
                               !.encryptedBase64 = encryptedBase64]
       IN  de' = [de EXCEPT ![d] =
             IF SegmentFalsy(ivBase64) \/ SegmentFalsy(encryptedBase64)
             THEN [called EXCEPT !.pc = "failed",
                                 !.error = InvalidFormatError]
             ELSE IF iv.error # NoError
             THEN [called EXCEPT !.pc = "failed",
                                 !.decoded = <<ivBase64[1]>>,
                                 !.providerCalls = <<"buffer.from">>,
                                 !.error = iv.error]
             ELSE IF encryptedData.error # NoError
             THEN [called EXCEPT !.pc = "failed",
                                 !.decoded = <<ivBase64[1], encryptedBase64[1]>>,
                                 !.providerCalls = <<"buffer.from", "buffer.from">>,
                                 !.error = encryptedData.error]
             ELSE IF outcome.kind = "createThrows"
             THEN [called EXCEPT !.pc = "failed", !.decipher = outcome.kind,
                                 !.decoded = <<ivBase64[1], encryptedBase64[1]>>,
                                 !.providerCalls = <<"buffer.from", "buffer.from",
                                                     "crypto.createDecipherAes256Cbc">>,
                                 !.error = outcome.error]
             ELSE IF outcome.kind = "finalThrows"
             THEN [called EXCEPT !.pc = "failed", !.decipher = outcome.kind,
                                 !.decoded = <<ivBase64[1], encryptedBase64[1]>>,
                                 !.providerCalls = <<"buffer.from", "buffer.from",
                                                     "crypto.createDecipherAes256Cbc",
                                                     "decipher.update", "decipher.final">>,
                                 !.error = outcome.error]
             ELSE IF outcome.kind = "text"
             THEN [called EXCEPT !.pc = "failed", !.decipher = outcome.kind,
                                 !.decoded = <<ivBase64[1], encryptedBase64[1]>>,
                                 !.decrypted = <<decrypted>>,
                                 !.providerCalls = <<"buffer.from", "buffer.from",
                                                     "crypto.createDecipherAes256Cbc",
                                                     "decipher.update", "decipher.final",
                                                     "buffer.concat">>,
                                 !.error = ParseFailedError]
             ELSE [called EXCEPT !.pc = "returned", !.decipher = outcome.kind,
                                 !.decoded = <<ivBase64[1], encryptedBase64[1]>>,
                                 !.decrypted = <<decrypted>>,
                                 !.providerCalls = <<"buffer.from", "buffer.from",
                                                     "crypto.createDecipherAes256Cbc",
                                                     "decipher.update", "decipher.final",
                                                     "buffer.concat">>,
                                 !.result = <<JsonParse(decrypted)>>]]
    /\ UNCHANGED <<config, encodeVars, orderVars, requestVars, checkoutVars, deActive, pagingVars>>

\* decrypt(encryptedResponse) for every input and every behaviour of the
\* decipher of the client's platform provider
Decrypt(d) ==
    \E encryptedResponse \in EnvelopeInputs,
       outcome \in DecipherOutcomes(config.platformProvider[1]) :
        DecryptWith(d, encryptedResponse, outcome)

\* no decrypt() call exists
NoDecrypt ==
    /\ deActive = {}
    /\ de = [d \in DeIds |-> IdleDe]

(***************************************************************************)
(* PaginatedList                                                           *)
(***************************************************************************)
\* the pagination cursor of page k out of count pages
Cursor(k, count) == [currentPageNumber |-> k, pageCount |-> count]

\* the n items of page k
Items(k, n) == [i \in 1..n |-> [page |-> k, index |-> i]]

\* new PaginatedList(data, pagination, searchParams, fetchNextPage)
PaginatedList(data, pagination, fetchNextPage) ==
    [data |-> data, pagination |-> pagination, fetchNextPage |-> fetchNextPage]

EmptyList == PaginatedList(<<>>, Undefined, FALSE)

\* the containers under study: with or without a cursor, with or without a
\* fetch function; pages are numbered from 1
ListInputs ==
    { PaginatedList(Items(1, n), Undefined, f) : n \in 0..MaxItems, f \in BOOLEAN }
    \cup { PaginatedList(Items(k, n), <<Cursor(k, count)>>, f) :
              k \in 1..MaxPages, count \in 0..MaxPages, n \in 0..MaxItems, f \in BOOLEAN }

\* variant: the last page counts as having more
HasMore_Inclusive(l) ==
    IF l.pagination = Undefined THEN FALSE
    ELSE l.pagination[1].currentPageNumber <= l.pagination[1].pageCount

\* get hasMore
HasMore(l) ==
    IF l.pagination = Undefined THEN FALSE
    ELSE l.pagination[1].currentPageNumber < l.pagination[1].pageCount

\* get currentPage
CurrentPage(l) ==
    IF l.pagination = Undefined THEN 1 ELSE l.pagination[1].currentPageNumber

\* get totalPages
TotalPages(l) ==
    IF l.pagination = Undefined THEN 1 ELSE l.pagination[1].pageCount

\* what fetchNextPage(k) may resolve with: data absent or the items of page
\* k, no cursor or the cursor of page k out of any number of pages
FetchResponses(k) ==
    { [data |-> d, pagination |-> c] :
        d \in {Undefined} \cup { <<Items(k, n)>> : n \in 0..MaxItems },
        c \in {Undefined} \cup { <<Cursor(k, count)>> : count \in 0..MaxPages } }

NoResponse == [data |-> Undefined, pagination |-> Undefined]

\* the predicates a caller may pass to find(): the item at a position of a
\* page, or at that position of any page (page 0); no item is on page
\* MaxPages + 1
Predicates == { [page |-> k, index |-> m] : k \in 0..(MaxPages + 1), m \in 1..MaxItems }

NoPredicate == [page |-> 0, index |-> 0]

\* predicate(item)
Matches(predicate, item) ==
    /\ predicate.index = item.index
    /\ predicate.page \in {0, item.page}

\* the counts a caller may pass to take()
TakeCounts == 0..MaxTake

IdleIter ==
    [pc |-> "idle", phase |-> "held", buffer |-> <<>>, index |-> 1, nextPage |-> 0,
     response |-> NoResponse, yielded |-> <<>>, fetches |-> <<>>, responses |-> <<>>,
     method |-> "none", count |-> 0, predicate |-> NoPredicate,
     items |-> <<>>, found |-> Undefined]

\* variant: the loop body never leaves the loop; take() keeps the first
\* count items, find() the first match
LoopBody_NoBreak(q, item) ==
    IF q.method = "take"
    THEN [q EXCEPT !.items = IF Len(@) < q.count THEN Append(@, item) ELSE @]
    ELSE IF q.method = "find"
    THEN [q EXCEPT !.found = IF @ = Undefined /\ Matches(q.predicate, item)
                             THEN <<item>> ELSE @]
    ELSE q

\* the body of the caller's for await loop, run on the item just yielded:
\* take() pushes it and breaks at count items, find() returns a match; a
\* break or a return ends the generator
LoopBody(q, item) ==
    IF q.method = "take"
    THEN [q EXCEPT !.items = Append(@, item),
                   !.pc = IF Len(q.items) + 1 >= q.count THEN "done" ELSE @]
    ELSE IF q.method = "find"
    THEN IF Matches(q.predicate, item)
         THEN [q EXCEPT !.found = <<item>>, !.pc = "done"]
         ELSE q
    ELSE q

\* variant: the container hands out its items once; an iteration that
\* starts after another one has started finds the held page consumed
Iterate_OneShot(i) ==
    /\ iter[i].pc = "idle"
    /\ iter' = [iter EXCEPT ![i] = [@ EXCEPT !.pc = "yield", !.phase = "held",
                                             !.method = "forAwait",
                                             !.buffer = IF \E j \in iterActive : iter[j].pc # "idle"
                                                        THEN <<>> ELSE list.data,
                                             !.index = 1]]
    /\ UNCHANGED <<config, encodeVars, orderVars, requestVars, checkoutVars, decryptVars, list, iterActive, gpActive, gp>>

\* for await (... of list): the generator starts on the held page
Iterate(i) ==
    /\ iter[i].pc = "idle"
    /\ iter' = [iter EXCEPT ![i] = [@ EXCEPT !.pc = "yield", !.phase = "held",
                                             !.method = "forAwait",
                                             !.buffer = list.data, !.index = 1]]
    /\ UNCHANGED <<config, encodeVars, orderVars, requestVars, checkoutVars, decryptVars, list, iterActive, gpActive, gp>>

\* take(count): an iteration whose loop body collects the items
Take(i) ==
    /\ iter[i].pc = "idle"
    /\ \E count \in TakeCounts :
         iter' = [iter EXCEPT ![i] = [@ EXCEPT !.pc = "yield", !.phase = "held",
                                              !.method = "take", !.count = count,
                                              !.buffer = list.data, !.index = 1]]
    /\ UNCHANGED <<config, encodeVars, orderVars, requestVars, checkoutVars, decryptVars, list, iterActive, gpActive, gp>>

\* find(predicate): an iteration whose loop body tests the items
Find(i) ==
    /\ iter[i].pc = "idle"
    /\ \E predicate \in Predicates :
         iter' = [iter EXCEPT ![i] = [@ EXCEPT !.pc = "yield", !.phase = "held",
                                              !.method = "find", !.predicate = predicate,
                                              !.buffer = list.data, !.index = 1]]
    /\ UNCHANGED <<config, encodeVars, orderVars, requestVars, checkoutVars, decryptVars, list, iterActive, gpActive, gp>>

\* variant: the position in the page is kept in the container, so a yield
\* of one iteration moves every iteration that is walking a page
Yield_SharedIndex(i) ==
    /\ iter[i].pc = "yield"
    /\ iter[i].index <= Len(iter[i].buffer)
    /\ LET item == iter[i].buffer[iter[i].index]
       IN  iter' = [j \in IterIds |->
                      IF j = i
                      THEN [iter[j] EXCEPT !.pc = "body", !.yielded = Append(@, item),
                                           !.index = @ + 1]
                      ELSE IF iter[j].pc = "yield"
                      THEN [iter[j] EXCEPT !.index = @ + 1]
                      ELSE iter[j]]
    /\ UNCHANGED <<config, encodeVars, orderVars, requestVars, checkoutVars, decryptVars, list, iterActive, gpActive, gp>>

\* yield item: the generator takes the next item of the page it walks and
\* suspends; the caller's loop gets the item in a later turn
Yield(i) ==
    /\ iter[i].pc = "yield"
    /\ iter[i].index <= Len(iter[i].buffer)
    /\ LET item == iter[i].buffer[iter[i].index]
       IN  iter' = [iter EXCEPT ![i] =
                      [@ EXCEPT !.pc = "body", !.yielded = Append(@, item), !.index = @ + 1]]
    /\ UNCHANGED <<config, encodeVars, orderVars, requestVars, checkoutVars, decryptVars, list, iterActive, gpActive, gp>>

\* the caller's for await loop receives the item that was yielded and runs
\* its body on it; unless the body leaves the loop the generator goes on
LoopBodyRuns(i) ==
    /\ iter[i].pc = "body"
    /\ LET item == iter[i].yielded[Len(iter[i].yielded)]
       IN  iter' = [iter EXCEPT ![i] = LoopBody([@ EXCEPT !.pc = "yield"], item)]
    /\ UNCHANGED <<config, encodeVars, orderVars, requestVars, checkoutVars, decryptVars, list, iterActive, gpActive, gp>>

\* variant: the loop stops one page short of totalPages
LoopTest_Exclusive(q, nextPage) ==
    IF nextPage < TotalPages(list)
    THEN [q EXCEPT !.pc = "await", !.nextPage = nextPage, !.fetches = Append(@, nextPage)]
    ELSE [q EXCEPT !.pc = "done", !.nextPage = nextPage]

\* while (nextPage <= this.totalPages): call fetchNextPage(nextPage), or finish
LoopTest(q, nextPage) ==
    IF nextPage <= TotalPages(list)
    THEN [q EXCEPT !.pc = "await", !.nextPage = nextPage, !.fetches = Append(@, nextPage)]
    ELSE [q EXCEPT !.pc = "done", !.nextPage = nextPage]

\* variant: the loop over the further pages starts at page 1
HeldPageDone_FromPageOne(i) ==
    /\ iter[i].pc = "yield"
    /\ iter[i].phase = "held"
    /\ iter[i].index > Len(iter[i].buffer)
    /\ iter' = [iter EXCEPT ![i] =
                  IF HasMore(list) /\ list.fetchNextPage
                  THEN LoopTest(@, 1)
                  ELSE [@ EXCEPT !.pc = "done"]]
    /\ UNCHANGED <<config, encodeVars, orderVars, requestVars, checkoutVars, decryptVars, list, iterActive, gpActive, gp>>

\* the held page is exhausted: fetch the following page if there is one
HeldPageDone(i) ==
    /\ iter[i].pc = "yield"
    /\ iter[i].phase = "held"
    /\ iter[i].index > Len(iter[i].buffer)
    /\ iter' = [iter EXCEPT ![i] =
                  IF HasMore(list) /\ list.fetchNextPage
                  THEN LoopTest(@, CurrentPage(list) + 1)
                  ELSE [@ EXCEPT !.pc = "done"]]
    /\ UNCHANGED <<config, encodeVars, orderVars, requestVars, checkoutVars, decryptVars, list, iterActive, gpActive, gp>>

\* await this.fetchNextPage(nextPage) resolves with one of the given
\* responses: walk response.data if present
FetchResolvesFrom(i, responses) ==
    /\ iter[i].pc = "await"
    /\ \E response \in responses :
         iter' = [iter EXCEPT ![i] =
                    [@ EXCEPT !.pc = "yield", !.phase = "fetched",
                              !.response = response,
                              !.responses = Append(@, response),
                              !.buffer = IF response.data = Undefined THEN <<>>
                                         ELSE response.data[1],
                              !.index = 1]]
    /\ UNCHANGED <<config, encodeVars, orderVars, requestVars, checkoutVars, decryptVars, list, iterActive, gpActive, gp>>

\* await this.fetchNextPage(nextPage) resolves, with any response
FetchResolves(i) == FetchResolvesFrom(i, FetchResponses(iter[i].nextPage))

\* !response.pagination || nextPage >= response.pagination.pageCount
NoFurtherPage(response, nextPage) ==
    \/ response.pagination = Undefined
    \/ nextPage >= response.pagination[1].pageCount

\* a fetched page is exhausted: break, or nextPage++ and the loop test
FetchedPageDone(i) ==
    /\ iter[i].pc = "yield"
    /\ iter[i].phase = "fetched"
    /\ iter[i].index > Len(iter[i].buffer)
    /\ iter' = [iter EXCEPT ![i] =
                  IF NoFurtherPage(iter[i].response, iter[i].nextPage)
                  THEN [@ EXCEPT !.pc = "done"]
                  ELSE LoopTest(@, iter[i].nextPage + 1)]
    /\ UNCHANGED <<config, encodeVars, orderVars, requestVars, checkoutVars, decryptVars, list, iterActive, gpActive, gp>>

\* the page numbers a caller may ask getPage for
PageNumbers == 0..(MaxPages + 1)

NoPage == [kind |-> "none", value |-> EmptyList]

IdleGp == [pc |-> "idle", pageNumber |-> 0, fetches |-> <<>>, result |-> NoPage]

\* variant: no shortcut for the page that is already held
GetPage_NoShortcut(g) ==
    /\ gp[g].pc = "idle"
    /\ \E pageNumber \in PageNumbers :
         gp' = [gp EXCEPT ![g] =
                  IF ~list.fetchNextPage \/ pageNumber < 1
                  THEN [@ EXCEPT !.pc = "returned", !.pageNumber = pageNumber,
                                 !.result = [kind |-> "null", value |-> EmptyList]]
                  ELSE [@ EXCEPT !.pc = "await", !.pageNumber = pageNumber,
                                 !.fetches = Append(@, pageNumber)]]
    /\ UNCHANGED <<config, encodeVars, orderVars, requestVars, checkoutVars, decryptVars, list, iterActive, iter, gpActive>>

\* getPage(pageNumber) up to its await: null, this, or a call of fetchNextPage
GetPage(g) ==
    /\ gp[g].pc = "idle"
    /\ \E pageNumber \in PageNumbers :
         gp' = [gp EXCEPT ![g] =
                  IF ~list.fetchNextPage \/ pageNumber < 1
                  THEN [@ EXCEPT !.pc = "returned", !.pageNumber = pageNumber,
                                 !.result = [kind |-> "null", value |-> EmptyList]]
                  ELSE IF pageNumber = CurrentPage(list)
                  THEN [@ EXCEPT !.pc = "returned", !.pageNumber = pageNumber,
                                 !.result = [kind |-> "this", value |-> list]]
                  ELSE [@ EXCEPT !.pc = "await", !.pageNumber = pageNumber,
                                 !.fetches = Append(@, pageNumber)]]
    /\ UNCHANGED <<config, encodeVars, orderVars, requestVars, checkoutVars, decryptVars, list, iterActive, iter, gpActive>>

\* await this.fetchNextPage(pageNumber) resolves: null, or a new container
GetPageResolves(g) ==
    /\ gp[g].pc = "await"
    /\ \E response \in FetchResponses(gp[g].pageNumber) :
         gp' = [gp EXCEPT ![g] =
                  IF response.data = Undefined
                  THEN [@ EXCEPT !.pc = "returned",
                                 !.result = [kind |-> "null", value |-> EmptyList]]
                  ELSE [@ EXCEPT !.pc = "returned",
                                 !.result = [kind |-> "new",
                                             value |-> PaginatedList(response.data[1],
                                                                     response.pagination, TRUE)]]]
    /\ UNCHANGED <<config, encodeVars, orderVars, requestVars, checkoutVars, decryptVars, list, iterActive, iter, gpActive>>

\* no PaginatedList is under study
NoPaging ==
    /\ list = EmptyList
    /\ iterActive = {}
    /\ iter = [i \in IterIds |-> IdleIter]
    /\ gpActive = {}
    /\ gp = [g \in GpIds |-> IdleGp]

(***************************************************************************)
(* The query and body objects of the request-building step                 *)
(***************************************************************************)
\* the values of a query or body object
Leaves ==
    { JsNull, JsUndefined, JsBoolean(FALSE), JsNumber("0"),
      JsString(<<"x">>), JsDate("2024-01-15T10:30:00") }

ArrayElements == { JsNull, JsUndefined, JsNumber("0"), JsString(<<"x">>) }

Arrays == { JsArray(a) : a \in UNION { [1..n -> ArrayElements] : n \in 0..MaxArrayLen } }

NestedObjects ==
    { JsObject(<<Entry("c", l)>>) : l \in Leaves }
    \cup { JsObject(<<Entry("c", JsObject(<<Entry("d", l)>>))>>) :
              l \in {JsNull, JsBoolean(FALSE)} }

\* the query and body objects a caller may pass
DataInputs ==
    { <<Entry("a", value)>> : value \in Leaves \cup Arrays \cup NestedObjects }
    \cup { <<Entry("a", l1), Entry("b", l2)>> :
              l1 \in {JsNull, JsString(<<"x">>)},
              l2 \in {JsUndefined, JsBoolean(FALSE), JsNumber("0")} }
    \cup { <<Entry("", JsObject(<<Entry("c", JsNumber("0"))>>))>> }

IdleEn ==
    [pc |-> "idle", method |-> "GET", query |-> Undefined, body |-> Undefined,
     queryPairs |-> <<>>, pathHasQuery |-> FALSE, formBody |-> Undefined]

\* request(options) up to the retry loop: the dates are transformed, the
\* query string is appended to the path, the body is form-encoded
BuildRequest(e) ==
    /\ en[e].pc = "idle"
    /\ \E method \in {"GET", "POST"},
          query \in {Undefined} \cup { <<d>> : d \in DataInputs },
          body \in {Undefined} \cup { <<d>> : d \in DataInputs } :
         LET transformedQuery == IF query = Undefined THEN Undefined
                                 ELSE <<ToApi(JsObject(query[1])).parts>>
             transformedBody == IF body = Undefined THEN Undefined
                                ELSE <<ToApi(JsObject(body[1])).parts>>
             queryPairs == IF transformedQuery = Undefined THEN <<>>
                           ELSE QueryPairs(transformedQuery[1])
         IN  en' = [en EXCEPT ![e] =
                      [pc |-> "built", method |-> method, query |-> query, body |-> body,
                       queryPairs |-> queryPairs,
                       pathHasQuery |-> queryPairs # <<>>,
                       formBody |-> IF transformedBody # Undefined /\ method \in BodyMethods
                                    THEN <<EncodeFormData(transformedBody[1])>>
                                    ELSE Undefined]]
    /\ UNCHANGED <<config, requestVars, checkoutVars, decryptVars, pagingVars, enActive,
                   orderVars>>

\* no request is being built
NoEncode ==
    /\ enActive = {}
    /\ en = [e \in EnIds |-> IdleEn]

(***************************************************************************)
(* OrderService.createOrderWithSavedCard                                   *)
(*                                                                         *)
(* The members of xMoneyResponseCodeEnum are named by their names.  A      *)
(* transactionOption is the JSON text of an object, kept as JsonStringify  *)
(* leaves it.  The error list of a response is optional: Undefined when    *)
(* the response has none, <<list>> when it has one (which may be empty).   *)
(***************************************************************************)
\* the error lists of a response; an error is its code and its message
ErrorLists ==
    { <<>>,
      <<[code |-> "SoftDecline", message |-> "Soft decline"]>>,
      <<[code |-> "GeneralError", message |-> "Insufficient funds"]>>,
      <<[code |-> "GeneralError", message |-> "Insufficient funds"],
        [code |-> "SoftDecline", message |-> "Soft decline"]>>,
      <<[code |-> "GeneralError", message |-> "Invalid card"],
        [code |-> "GeneralError", message |-> "Insufficient funds"]>> }

\* the response bodies apiService.createOrder may resolve to, each with the
\* HTTP status it came with: post() returns the response axios resolves
\* with and, when axios rejects, the response the error carries, so the
\* body of a 500 is handed on like the body of a 200
OrderResponses ==
    { [status |-> s, code |-> c, data |-> d, error |-> e] :
        s \in {200, 500},
        c \in {"Success", "Created", "SoftDecline", "GeneralError"},
        d \in {Undefined, <<"order">>},
        e \in {Undefined} \cup { <<l>> : l \in ErrorLists } }

\* JSON.stringify({isSoftDecline: 'yes'})
SoftDeclineOption == JsonStringify(<< <<"isSoftDecline", StringValue(<<"yes">>)>> >>)

\* the OrderInputSavedCardDto objects a caller may pass
OrderInputs ==
    { [cardId |-> c, transactionOption |-> t] :
        c \in {1, 2},
        t \in {Undefined, << JsonStringify(<< <<"note", StringValue(<<"x">>)>> >>) >>} }

\* order.data && (order.code === Success || order.code === Created)
OrderCreated(order) ==
    order.data # Undefined /\ order.code \in {"Success", "Created"}

\* order.error && order.error.find((e) => e.code === SoftDecline)
HasSoftDecline(order) ==
    /\ order.error # Undefined
    /\ \E n \in 1..Len(order.error[1]) : order.error[1][n].code = "SoftDecline"

\* order.error?.length ? order.error[0].message : 'Unknown error'
FirstErrorMessage(order) ==
    IF order.error # Undefined /\ Len(order.error[1]) # 0
    THEN order.error[1][1].message
    ELSE "Unknown error"

\* outer counts the calls suspended at "return await
\* this.createOrderWithSavedCard(...)"; inner is how the innermost call
\* ended while such calls are still pending
IdleOs ==
    [pc |-> "idle", input |-> [cardId |-> 1, transactionOption |-> Undefined],
     given |-> Undefined, iteration |-> 0, outer |-> 0, inner |-> "none",
     requests |-> <<>>, responses |-> <<>>, result |-> Undefined, error |-> ""]

\* the innermost call ends (how is "resolved" or "rejected"): it is the
\* top-level call, or calls that await it are still pending
Settles(q, how) ==
    IF q.outer = 0
    THEN [q EXCEPT !.pc = how]
    ELSE [q EXCEPT !.pc = "unwind", !.inner = how]

\* createOrderWithSavedCard(orderInput, iteration) up to its await: the
\* limit test, whose throw rejects the call, then the call of
\* apiService.createOrder(orderInput)
Enter(q, orderInput, iteration) ==
    IF iteration = 2
    THEN Settles([q EXCEPT !.iteration = iteration,
                           !.error = "Maximum iterations limit exceeded for create order"],
                 "rejected")
    ELSE [q EXCEPT !.pc = "await", !.iteration = iteration,
                   !.requests = Append(@, orderInput)]

\* the top-level call createOrderWithSavedCard(orderInput, iteration); a
\* caller passes no iteration (the default 0) or a number
CreateOrderWithSavedCard(o) ==
    /\ os[o].pc = "idle"
    /\ \E orderInput \in OrderInputs, iteration \in {Undefined, <<0>>, <<1>>, <<2>>, <<3>>} :
         os' = [os EXCEPT ![o] =
                  Enter([@ EXCEPT !.input = orderInput, !.given = iteration], orderInput,
                        IF iteration = Undefined THEN 0 ELSE iteration[1])]
    /\ UNCHANGED <<config, requestVars, checkoutVars, decryptVars, pagingVars, encodeVars,
                   osActive>>

\* apiService.createOrder resolves in the innermost call: the rest of its
\* body.  On a soft decline the call makes the recursive call and suspends
\* at "return await"; otherwise the call ends.  A call that would send
\* more than MaxOrderRequests requests is not followed further.
CreateOrderResolves(o) ==
    /\ os[o].pc = "await"
    /\ \E order \in OrderResponses :
         LET q == [os[o] EXCEPT !.responses = Append(@, order)]
             orderInput == q.requests[Len(q.requests)]
             softDeclineInput == [orderInput EXCEPT !.transactionOption = <<SoftDeclineOption>>]
         IN  /\ (~OrderCreated(order) /\ HasSoftDecline(order) /\ q.iteration + 1 # 2)
                   => Len(q.requests) < MaxOrderRequests
             /\ os' = [os EXCEPT ![o] =
                   IF OrderCreated(order)
                   THEN Settles([q EXCEPT !.result = order.data], "resolved")
                   ELSE IF HasSoftDecline(order)
                   THEN Enter([q EXCEPT !.outer = @ + 1], softDeclineInput, q.iteration + 1)
                   ELSE Settles([q EXCEPT !.error = FirstErrorMessage(order)], "rejected")]
    /\ UNCHANGED <<config, requestVars, checkoutVars, decryptVars, pagingVars, encodeVars,
                   osActive>>

\* apiService.createOrder rejects in the innermost call: axios rejected
\* without a response (no connection, timeout), post() returned
\* error?.response, which is undefined, and createOrder threw the TypeError
\* of reading its data; the call rejects with that error
CreateOrderRejects(o) ==
    /\ os[o].pc = "await"
    /\ os' = [os EXCEPT ![o] =
                Settles([@ EXCEPT !.error =
                            "Cannot read properties of undefined (reading 'data')"],
                        "rejected")]
    /\ UNCHANGED <<config, requestVars, checkoutVars, decryptVars, pagingVars, encodeVars,
                   osActive>>

\* a call suspended at "return await this.createOrderWithSavedCard(...)"
\* resumes after the call it made has ended, and ends the same way
ReturnAwaitResumes(o) ==
    /\ os[o].pc = "unwind"
    /\ os' = [os EXCEPT ![o] =
                [@ EXCEPT !.outer = @ - 1,
                          !.pc = IF os[o].outer = 1 THEN os[o].inner ELSE "unwind"]]
    /\ UNCHANGED <<config, requestVars, checkoutVars, decryptVars, pagingVars, encodeVars,
                   osActive>>

\* no createOrderWithSavedCard call is made
NoOrder ==
    /\ osActive = {}
    /\ os = [o \in OsIds |-> IdleOs]

(***************************************************************************)
(* Specification of one request() call on a freshly constructed client     *)
(***************************************************************************)
Init ==
    /\ \E input \in ConfigInputs :
          Constructor(input).error = "" /\ config = Constructor(input).config
    /\ active = {1}
    /\ req = [r \in ReqIds |-> IdleReq]
    /\ coActive = {}
    /\ co = [c \in CoIds |-> IdleCo]
    /\ NoDecrypt
    /\ NoPaging
    /\ NoEncode
    /\ NoOrder

Next ==
    \E r \in active :
        \/ Request(r)
        \/ Invoke(r)
        \/ Complete(r)
        \/ JsonSettles(r)
        \/ BackoffElapsed(r)
        \/ ThrowLast(r)

Spec == Init /\ [][Next]_vars

\* Two request() calls outstanding on one client.  The client retries up to
\* its default or up to 2 attempts; the transport answers 200, 400 or 500
\* with an object body, or fails with a network error.
PairConfigInputs ==
    { c \in ConfigInputs :
        /\ Get(c, "apiKey") = <<"sk_a">>
        /\ DOMAIN c \subseteq {"apiKey", "maxRetries", "httpClient", "platformProvider"}
        /\ Get(c, "maxRetries") \in {Undefined, <<2>>} }

PairOptionInputs == { o \in OptionInputs : o.headers = EmptyObj /\ o.body # Undefined }

PairOutcomes ==
    { o \in Outcomes :
        \/ /\ o.kind = "response"
           /\ o.status \in {200, 400, 500}
           /\ o.body.json = "object"
           /\ o.body.message = <<"Bad request">>
        \/ /\ o.kind = "throw"
           /\ o.type = "Error"
           /\ o.message = "Network error" }

InitRequestPair ==
    /\ \E input \in PairConfigInputs :
          Constructor(input).error = "" /\ config = Constructor(input).config
    /\ active = {1, 2}
    /\ req = [r \in ReqIds |-> IdleReq]
    /\ coActive = {}
    /\ co = [c \in CoIds |-> IdleCo]
    /\ NoDecrypt
    /\ NoPaging
    /\ NoEncode
    /\ NoOrder

NextRequestPair ==
    \E r \in active :
        \/ RequestFrom(r, PairOptionInputs)
        \/ Invoke(r)
        \/ CompleteFrom(r, PairOutcomes)
        \/ JsonSettles(r)
        \/ BackoffElapsed(r)
        \/ ThrowLast(r)

SpecRequestPair == InitRequestPair /\ [][NextRequestPair]_vars

Done(r) == req[r].pc \in {"resolved", "rejected"}

(***************************************************************************)
(* Specification of one checkout create() call                             *)
(***************************************************************************)
CheckoutConfigInputs == { input \in ConfigInputs : "maxRetries" \notin DOMAIN input }

InitCheckout ==
    /\ \E input \in CheckoutConfigInputs :
          Constructor(input).error = "" /\ config = Constructor(input).config
    /\ active = {}
    /\ req = [r \in ReqIds |-> IdleReq]
    /\ coActive = {1}
    /\ co = [c \in CoIds |-> IdleCo]
    /\ NoDecrypt
    /\ NoPaging
    /\ NoEncode
    /\ NoOrder

NextCheckout == \E c \in coActive : Create(c)

SpecCheckout == InitCheckout /\ [][NextCheckout]_vars

(***************************************************************************)
(* Specification of two create() calls on one client                       *)
(***************************************************************************)
\* the public keys of the two calls: a test key, a live key, a malformed key
PairPublicKeys ==
    { StringValue(PkTest \o <<"a">>), StringValue(PkLive \o <<"a">>),
      StringValue(<<"p", "k", "_", "a">>) }

PairParamInputs == { p \in ParamInputs : Prop(p, "publicKey") \in PairPublicKeys }

InitCheckoutPair ==
    /\ \E input \in CheckoutConfigInputs :
          Constructor(input).error = "" /\ config = Constructor(input).config
    /\ active = {}
    /\ req = [r \in ReqIds |-> IdleReq]
    /\ coActive = {1, 2}
    /\ co = [c \in CoIds |-> IdleCo]
    /\ NoDecrypt
    /\ NoPaging
    /\ NoEncode
    /\ NoOrder

NextCheckoutPair == \E c \in coActive : \E params \in PairParamInputs : CreateWith(c, params)

SpecCheckoutPair == InitCheckoutPair /\ [][NextCheckoutPair]_vars

(***************************************************************************)
(* Specification of one checkout decrypt() call                            *)
(***************************************************************************)
NoRequest ==
    /\ active = {}
    /\ req = [r \in ReqIds |-> IdleReq]

NoCheckout ==
    /\ coActive = {}
    /\ co = [c \in CoIds |-> IdleCo]

InitDecrypt ==
    /\ \E input \in CheckoutConfigInputs :
          Constructor(input).error = "" /\ config = Constructor(input).config
    /\ NoRequest
    /\ NoCheckout
    /\ deActive = {1}
    /\ de = [d \in DeIds |-> IdleDe]
    /\ NoPaging
    /\ NoEncode
    /\ NoOrder

NextDecrypt == \E d \in deActive : Decrypt(d)

SpecDecrypt == InitDecrypt /\ [][NextDecrypt]_vars

(***************************************************************************)
(* Specification of one asynchronous iteration of a PaginatedList          *)
(***************************************************************************)
\* PaginatedList does not read the client: one configuration is enough
PagingConfig == Constructor(Spread([apiKey |-> <<"sk_a">>], Providers)).config

InitIterate ==
    /\ config = PagingConfig
    /\ NoRequest
    /\ NoCheckout
    /\ NoDecrypt
    /\ list \in ListInputs
    /\ iterActive = {1}
    /\ iter = [i \in IterIds |-> IdleIter]
    /\ gpActive = {}
    /\ gp = [g \in GpIds |-> IdleGp]
    /\ NoEncode
    /\ NoOrder

NextIterate ==
    \E i \in iterActive :
        \/ Iterate(i)
        \/ Yield(i)
        \/ LoopBodyRuns(i)
        \/ HeldPageDone(i)
        \/ FetchResolves(i)
        \/ FetchedPageDone(i)

SpecIterate == InitIterate /\ [][NextIterate]_vars

(***************************************************************************)
(* Specification of two asynchronous iterations of one PaginatedList,      *)
(* interleaved in every way                                                *)
(***************************************************************************)
\* the containers of the two iterations: page 1, at most one item
PairListInputs == { l \in ListInputs : CurrentPage(l) = 1 /\ Len(l.data) <= 1 }

\* what fetchNextPage(k) resolves with in the two iterations: data absent or
\* one item; no cursor, page k as the last page, page k out of MaxPages
PairResponses(k) ==
    { [data |-> d, pagination |-> c] :
        d \in {Undefined, <<Items(k, 1)>>},
        c \in {Undefined, <<Cursor(k, k)>>, <<Cursor(k, MaxPages)>>} }

InitIteratePair ==
    /\ config = PagingConfig
    /\ NoRequest
    /\ NoCheckout
    /\ NoDecrypt
    /\ list \in PairListInputs
    /\ iterActive = {1, 2}
    /\ iter = [i \in IterIds |-> IdleIter]
    /\ gpActive = {}
    /\ gp = [g \in GpIds |-> IdleGp]
    /\ NoEncode
    /\ NoOrder

NextIteratePair ==
    \E i \in iterActive :
        \/ Iterate(i)
        \/ Yield(i)
        \/ LoopBodyRuns(i)
        \/ HeldPageDone(i)
        \/ FetchResolvesFrom(i, PairResponses(iter[i].nextPage))
        \/ FetchedPageDone(i)

SpecIteratePair == InitIteratePair /\ [][NextIteratePair]_vars

\* every step of the iteration that can be taken is taken: the generator
\* runs on, and every fetch resolves
SpecIterateFair == SpecIterate /\ WF_vars(NextIterate)

(***************************************************************************)
(* Specification of one take() or find() call on a PaginatedList           *)
(***************************************************************************)
NextAggregate ==
    \E i \in iterActive :
        \/ Take(i)
        \/ Find(i)
        \/ Yield(i)
        \/ LoopBodyRuns(i)
        \/ HeldPageDone(i)
        \/ FetchResolves(i)
        \/ FetchedPageDone(i)

SpecAggregate == InitIterate /\ [][NextAggregate]_vars

(***************************************************************************)
(* Specification of one getPage() call on a PaginatedList                  *)
(***************************************************************************)
InitGetPage ==
    /\ config = PagingConfig
    /\ NoRequest
    /\ NoCheckout
    /\ NoDecrypt
    /\ list \in ListInputs
    /\ iterActive = {}
    /\ iter = [i \in IterIds |-> IdleIter]
    /\ gpActive = {1}
    /\ gp = [g \in GpIds |-> IdleGp]
    /\ NoEncode
    /\ NoOrder

NextGetPage ==
    \E g \in gpActive :
        \/ GetPage(g)
        \/ GetPageResolves(g)

SpecGetPage == InitGetPage /\ [][NextGetPage]_vars

(***************************************************************************)
(* Specification of the query string and form body of one request() call   *)
(***************************************************************************)
InitEncode ==
    /\ config = PagingConfig
    /\ NoRequest
    /\ NoCheckout
    /\ NoDecrypt
    /\ NoPaging
    /\ enActive = {1}
    /\ en = [e \in EnIds |-> IdleEn]
    /\ NoOrder

NextEncode == \E e \in enActive : BuildRequest(e)

SpecEncode == InitEncode /\ [][NextEncode]_vars

(***************************************************************************)
(* Specification of one top-level createOrderWithSavedCard call            *)
(***************************************************************************)
InitOrder ==
    /\ config = PagingConfig
    /\ NoRequest
    /\ NoCheckout
    /\ NoDecrypt
    /\ NoPaging
    /\ NoEncode
    /\ osActive = {1}
    /\ os = [o \in OsIds |-> IdleOs]

NextOrder ==
    \E o \in osActive :
        \/ CreateOrderWithSavedCard(o)
        \/ CreateOrderResolves(o)
        \/ CreateOrderRejects(o)
        \/ ReturnAwaitResumes(o)

SpecOrder == InitOrder /\ [][NextOrder]_vars

(***************************************************************************)
(* Properties of the request pipeline                                      *)
(***************************************************************************)
\* the limit the configuration asks for: maxRetries, or 3 when it is not set
ConfiguredLimit ==
    IF Get(config, "maxRetries") = Undefined THEN 3 ELSE config.maxRetries[1]

\* C1: for every configured maxRetries n >= 0, one request() call invokes
\* the transport at most n times (at most 3 times when not configured).
C1_AtMostMaxRetriesCalls ==
    \A r \in active : req[r].calls <= ConfiguredLimit

\* C2 as stated: an attempt that failed with an XMoneyError whose status
\* code is below 500 ends the call at once with that error, for every status
\* code below 500: no backoff and no further transport invocation.
C2_Below500NeverRetried ==
    \A r \in active :
        LET q == req[r] e == q.lastError
        IN  (e.type = "XMoneyError" /\ e.statusCode # Undefined /\ e.statusCode[1] < 500)
            => /\ q.pc = "rejected"
               /\ q.error = e
               /\ e.at = q.calls
               /\ Len(q.delays) = q.calls - 1

\* C2 amended: the same for every status code below 500 other than 0; a
\* status code of 0 counts as no status code and is retried.
C2_NonzeroBelow500NeverRetried ==
    \A r \in active :
        LET q == req[r] e == q.lastError
        IN  (e.type = "XMoneyError" /\ e.statusCode # Undefined
                /\ e.statusCode[1] # 0 /\ e.statusCode[1] < 500)
            => /\ q.pc = "rejected"
               /\ q.error = e
               /\ e.at = q.calls
               /\ Len(q.delays) = q.calls - 1

\* a third attempt failed with status 499 and the call was rejected there
C2_Witness ==
    \E r \in active :
        /\ req[r].pc = "rejected"
        /\ req[r].calls = 3
        /\ req[r].maxRetries > 3
        /\ req[r].error.statusCode = <<499>>

\* C3: whenever the transport returns a response with status 400..499, the
\* call fails after that one invocation with an error carrying that status,
\* whatever the response body is (once the body has been asked for).
C3_ClientErrorResponseFailsAtOnce ==
    \A r \in active :
        LET q == req[r]
        IN  (/\ q.pc # "json"
             /\ q.outcome.kind = "response"
             /\ q.outcome.status >= 400 /\ q.outcome.status <= 499)
            => /\ q.pc = "rejected"
               /\ q.error.at = q.calls
               /\ q.error.statusCode = <<q.outcome.status>>

\* a retryable failure in the words of the specification: a network error,
\* a timeout, or a 5xx response
RetryableOutcome(o) ==
    \/ o.kind = "throw" /\ o.type = "Error"
    \/ o.kind = "throw" /\ o.type = "XMoneyError" /\ o.statusCode # Undefined
          /\ o.statusCode[1] >= 500
    \/ o.kind = "response" /\ o.status >= 500

\* the transport returned a 2xx response whose body parses as JSON
SuccessOutcome(o) ==
    o.kind = "response" /\ o.status >= 200 /\ o.status <= 299 /\ o.body.json # "text"

\* C4: if the first k attempts fail with retryable failures and attempt k+1
\* succeeds (k+1 <= maxRetries), the call resolves with the decoded body of
\* attempt k+1 after exactly k+1 transport invocations.  A retryable failure
\* before the last attempt therefore never ends the call.  (Stated for every
\* earlier failure that was retried, a retryable one or not.)
C4_RetryThenSuccess ==
    \A r \in active :
        LET q == req[r]
        IN  /\ (q.outcome.kind # "none" /\ q.pc # "json" /\ RetryableOutcome(q.outcome)
                  /\ q.calls < q.maxRetries)
               => q.pc \in {"backoff", "loop"}
            /\ (SuccessOutcome(q.outcome) /\ q.pc # "json")
               => /\ q.pc = "resolved"
                  /\ q.result = <<q.outcome.body>>
                  /\ q.calls = q.failures + 1
                  /\ q.calls <= q.maxRetries

\* two retryable failures, then success on the third attempt
C4_Witness ==
    \E r \in active :
        /\ req[r].pc = "resolved"
        /\ req[r].lastError.type = "Error"
        /\ req[r].lastError.message = "Network error"
        /\ req[r].failures = 2
        /\ req[r].calls = 3
        /\ req[r].result[1].json = "object"

\* C5: when every attempt fails with a retryable failure, the call rejects
\* with exactly the error of the last attempt, neither an earlier one nor a
\* wrapper, after exactly maxRetries transport invocations, maxRetries being
\* the configured value (3 when it is not set).  (Stated for every call
\* whose last attempt fails with a retryable failure.)
C5_LastErrorUnchanged ==
    \A r \in active :
        LET q == req[r] o == q.outcome
        IN  (q.pc = "rejected" /\ RetryableOutcome(o))
            => /\ q.calls = ConfiguredLimit
               /\ q.failures = ConfiguredLimit
               /\ q.error.at = q.calls
               /\ o.kind = "throw" =>
                     /\ q.error.type = o.type
                     /\ q.error.message = o.message
                     /\ q.error.statusCode = o.statusCode
               /\ (o.kind = "response" /\ o.body.json = "object") =>
                     /\ q.error.type = "XMoneyError"
                     /\ q.error.statusCode = <<o.status>>

\* the wait the specification gives for the gap after failed attempt a
ExpectedWait(a) ==
    CASE a = 1 -> 1000
      [] a = 2 -> 2000
      [] a = 3 -> 4000
      [] a = 4 -> 8000
      [] OTHER -> 10000

\* C6: between failed attempt a and attempt a+1 the client waits
\* min(1000 * 2^(a-1), 10000) ms; there is no wait before the first attempt,
\* none after the final attempt and none after a non-retryable failure.
C6_BackoffSchedule ==
    \A r \in active :
        LET q == req[r]
        IN  /\ \A i \in 1..Len(q.delays) : q.delays[i] = <<i, ExpectedWait(i)>>
            /\ q.pc \in {"await", "json", "resolved", "rejected"}
                  => Len(q.delays) = q.calls - 1
            /\ q.pc = "backoff" => Len(q.delays) = q.calls /\ q.calls < q.maxRetries
            /\ q.pc = "idle" => q.delays = <<>>

\* five gaps were waited: 1000, 2000, 4000, 8000 and 10000 ms
C6_Witness ==
    \E r \in active :
        /\ Len(req[r].delays) >= 5
        /\ req[r].delays[4] = <<4, 8000>>
        /\ req[r].delays[5] = <<5, 10000>>
        /\ Done(r)

\* C7: every transport invocation carries Authorization = 'Bearer ' + apiKey,
\* whatever extra headers the caller passes.
C7_AuthorizationAlwaysBearerApiKey ==
    \A r \in active :
        req[r].calls > 0
            => Get(req[r].sent.headers, "Authorization") = Bearer(config.apiKey[1])

\* C8: every failure of request() reaches the caller as an XMoneyError.
C8_OnlyXMoneyErrorSurfaces ==
    \A r \in active :
        req[r].pc = "rejected" => req[r].error.type = "XMoneyError"

(***************************************************************************)
(* Properties of checkout create()                                         *)
(***************************************************************************)
\* the key has the form pk_test_<s> or pk_live_<s> with s not empty
WellFormedPublicKey(pk) ==
    /\ pk.t = "string"
    /\ \E pre \in {PkTest, PkLive} : IsPrefix(pre, pk.v) /\ Len(pk.v) > Len(pre)

\* C10: create() succeeds exactly when the public key matches
\* pk_(test|live)_<non-empty siteId>, and then the payload's siteId is that
\* suffix for every request; an absent or empty key fails with 'Public key
\* is required', any other non-matching key with 'Invalid public key
\* format', both before any provider call.
C10_PublicKeyValidation ==
    \A c \in coActive :
        LET q == co[c]
            pk == Prop(q.params, "publicKey")
        IN  q.pc # "idle"
            => /\ (q.pc = "created") <=> WellFormedPublicKey(pk)
               /\ q.pc = "created" =>
                     Prop(q.payload[1].base64.utf8, "siteId")
                         = StringValue(SubSeq(pk.v, Len(PkTest) + 1, Len(pk.v)))
               /\ (pk.t = "undefined" \/ pk.v = <<>>) =>
                     /\ q.pc = "failed"
                     /\ q.error.type = "XMoneyError"
                     /\ q.error.message = "Public key is required for hosted checkout"
                     /\ q.providerCalls = <<>>
               /\ (pk.t = "string" /\ pk.v # <<>> /\ ~WellFormedPublicKey(pk)) =>
                     /\ q.pc = "failed"
                     /\ q.error.type = "XMoneyError"
                     /\ q.error.message = "Invalid public key format. Expected: pk_<env>_<key>"
                     /\ q.providerCalls = <<>>

\* C11: when the request passed to create() does not supply saveCard (the
\* field is absent or undefined) the decoded payload has saveCard = false;
\* when it supplies true or false the payload carries that value.
C11_SaveCardDefaultsToFalse ==
    \A c \in coActive :
        LET q == co[c]
            supplied == Prop(q.params, "saveCard")
        IN  q.pc = "created"
            => Prop(q.payload[1].base64.utf8, "saveCard")
                 = IF supplied.t = "undefined" THEN BooleanValue(FALSE) ELSE supplied

\* the two requests give some field different values; a field that is
\* absent counts as undefined
RequestsDiffer(p1, p2) ==
    \E k \in Keys(p1) \cup Keys(p2) : Prop(p1, k) # Prop(p2, k)

\* the value field k has in the request create() serializes: the value the
\* request gives it (none when it gives undefined); for a field the request
\* leaves out, the value create() fills in, false for saveCard and the
\* suffix of the public key for siteId, and none for any other field
SerializedValue(p, k) ==
    IF k \in Keys(p) THEN Prop(p, k)
    ELSE IF k = "saveCard" THEN BooleanValue(FALSE)
    ELSE IF k = "siteId"
    THEN StringValue(SubSeq(Prop(p, "publicKey").v, Len(PkTest) + 1,
                            Len(Prop(p, "publicKey").v)))
    ELSE UndefinedValue

\* the two requests are serialized with different values for some field
SerializedValuesDiffer(p1, p2) ==
    \E k \in Keys(p1) \cup Keys(p2) \cup {"saveCard", "siteId"} :
        SerializedValue(p1, k) # SerializedValue(p2, k)

\* C13 as stated: two successful create() calls with the same public key
\* and apiKey whose requests differ in the value of at least one field, a
\* field present in one and absent or undefined in the other included,
\* return different checksums.
C13_DifferentRequestsDifferentChecksums ==
    \A c1, c2 \in coActive :
        (/\ co[c1].pc = "created" /\ co[c2].pc = "created"
         /\ Prop(co[c1].params, "publicKey") = Prop(co[c2].params, "publicKey")
         /\ RequestsDiffer(co[c1].params, co[c2].params))
        => co[c1].checksum # co[c2].checksum

\* C13 amended: two successful create() calls with the same public key and
\* apiKey return different checksums whenever some field has different
\* values in the two serialized requests: two different values, or a value
\* in one request and none (absent or undefined) in the other, unless the
\* value is the one create() fills in for the absent field.  Two requests
\* that differ only in saveCard being absent in one and false in the other
\* return the same checksum.
C13_SerializedValuesDifferThenChecksumsDiffer ==
    \A c1, c2 \in coActive :
        LET p1 == co[c1].params
            p2 == co[c2].params
        IN  (/\ co[c1].pc = "created" /\ co[c2].pc = "created"
             /\ Prop(p1, "publicKey") = Prop(p2, "publicKey"))
            => /\ SerializedValuesDiffer(p1, p2) => co[c1].checksum # co[c2].checksum
               /\ (/\ "saveCard" \notin Keys(p1)
                   /\ Prop(p2, "saveCard") = BooleanValue(FALSE)
                   /\ SelectSeq(p2, LAMBDA e : e[1] # "saveCard") = p1)
                  => co[c1].checksum = co[c2].checksum

\* one call without saveCard and one with saveCard true, same key and the
\* other fields the same: a value present in one request only, and the
\* checksums differ
C13_Witness ==
    /\ co[1].pc = "created"
    /\ co[2].pc = "created"
    /\ "saveCard" \notin Keys(co[1].params)
    /\ Prop(co[2].params, "saveCard") = BooleanValue(TRUE)
    /\ SelectSeq(co[2].params, LAMBDA e : e[1] # "saveCard") = co[1].params
    /\ co[1].checksum # co[2].checksum

(***************************************************************************)
(* Properties of decrypt()                                                 *)
(***************************************************************************)
\* C14: decrypt() splits its input on the first comma only: the IV segment
\* is the text before the first comma and the ciphertext segment is all of
\* the text after it, for every input that has a comma, more than one comma
\* included; these are the texts handed to the base64 decoder.
C14_SplitOnFirstCommaOnly ==
    \A d \in deActive :
        LET q == de[d]
            first == IndexOf(q.input, ",")
            before == SubSeq(q.input, 1, first - 1)
            after == SubSeq(q.input, first + 1, Len(q.input))
        IN  (q.pc # "idle" /\ first # 0)
            => /\ q.ivBase64 = <<before>>
               /\ q.encryptedBase64 = <<after>>
               /\ q.decoded = SubSeq(<<before, after>>, 1, Len(q.decoded))

\* C15: an input with no comma, with nothing before its first comma or with
\* nothing after it makes decrypt() fail with an XMoneyError 'Invalid
\* encrypted response format', and neither the base64 decoder nor the
\* decipher is invoked.
C15_MalformedEnvelopeRejectedBeforeProvider ==
    \A d \in deActive :
        LET q == de[d]
            first == IndexOf(q.input, ",")
        IN  (q.pc # "idle" /\ (first = 0 \/ first = 1 \/ first = Len(q.input)))
            => /\ q.pc = "failed"
               /\ q.error.type = "XMoneyError"
               /\ q.error.message = "Invalid encrypted response format"
               /\ q.providerCalls = <<>>
               /\ q.decoded = <<>>
               /\ q.decipher = "none"

\* an input that ends with its only comma was refused
C15_Witness ==
    \E d \in deActive :
        /\ de[d].pc = "failed"
        /\ Len(de[d].input) >= 2
        /\ IndexOf(de[d].input, ",") = Len(de[d].input)
        /\ de[d].providerCalls = <<>>

\* a segment of the envelope is missing or empty: there is no comma, nothing
\* before the first comma, or nothing after it
MalformedShape(input) ==
    LET first == IndexOf(input, ",")
    IN  \/ first = 0
        \/ first = 1
        \/ first = Len(input)

\* C16: a well-formed input (a comma with text before it and text after it)
\* whose decryption yields a text that is not JSON makes decrypt() fail with
\* an XMoneyError 'Failed to parse decrypted response'; the format error is
\* produced only for a malformed input, before any provider call, and the
\* parse error only after the decipher has delivered the plaintext; the two
\* messages differ.
C16_ParseErrorDistinctFromFormatError ==
    \A d \in deActive :
        LET q == de[d]
        IN  q.pc # "idle"
            => /\ (~MalformedShape(q.input) /\ q.decipher = "text")
                  => /\ q.pc = "failed"
                     /\ q.error.type = "XMoneyError"
                     /\ q.error.message = "Failed to parse decrypted response"
               /\ q.error.message = "Invalid encrypted response format"
                  => /\ MalformedShape(q.input)
                     /\ q.providerCalls = <<>>
               /\ q.error.message = "Failed to parse decrypted response"
                  => /\ ~MalformedShape(q.input)
                     /\ q.decipher = "text"
                     /\ q.decrypted # Undefined
                     /\ \E n \in 1..Len(q.providerCalls) : q.providerCalls[n] = "decipher.final"

(***************************************************************************)
(* Properties of PaginatedList                                             *)
(***************************************************************************)
\* C17: hasMore is true exactly when the container has a cursor and its
\* currentPageNumber is below its pageCount: false without a cursor, false
\* on the last page, false when pageCount is 0.  The asynchronous iterator
\* reads it once the held page is exhausted: with a fetch function at hand
\* it asks for a further page exactly in that case.
C17_HasMoreIffBelowPageCount ==
    /\ list.pagination = Undefined => ~HasMore(list)
    /\ list.pagination # Undefined =>
          /\ list.pagination[1].currentPageNumber < list.pagination[1].pageCount
                => HasMore(list)
          /\ list.pagination[1].currentPageNumber >= list.pagination[1].pageCount
                => ~HasMore(list)
          /\ list.pagination[1].pageCount = 0 => ~HasMore(list)
    /\ \A i \in iterActive :
          (iter[i].pc \in {"await", "done"} /\ list.fetchNextPage)
          => (iter[i].fetches # <<>>
                <=> /\ list.pagination # Undefined
                    /\ list.pagination[1].currentPageNumber < list.pagination[1].pageCount)

\* an iteration of a container on page 1 of 2 asked for a further page, and
\* so hasMore was true
C17_Witness ==
    /\ list.pagination = <<Cursor(1, 2)>>
    /\ HasMore(list)
    /\ \E i \in iterActive : iter[i].pc = "done" /\ iter[i].fetches = <<2>>

\* the items of the pages a sequence of responses carries, in order
RECURSIVE FetchedItems(_)
FetchedItems(responses) ==
    IF responses = <<>> THEN <<>>
    ELSE (IF Head(responses).data = Undefined THEN <<>> ELSE Head(responses).data[1])
         \o FetchedItems(Tail(responses))

\* the container holds page 1 of n pages and has a fetch function, and every
\* fetch so far resolved with the items and the cursor of the page asked for
FaithfulPages(i, n) ==
    /\ list.pagination = <<Cursor(1, n)>>
    /\ list.fetchNextPage
    /\ \A j \in 1..Len(iter[i].responses) :
          /\ iter[i].responses[j].data # Undefined
          /\ iter[i].responses[j].pagination = <<Cursor(iter[i].fetches[j], n)>>

\* C18: for a container holding page 1 of N pages (N >= 1) whose fetch
\* function resolves with page k of N for every k, the asynchronous
\* iteration yields the items of pages 1..N in page order, each page's items
\* in their order, and calls the fetch function exactly N-1 times, for the
\* pages 2..N in increasing order.
C18_IterationWalksAllPagesInOrder ==
    \A i \in iterActive : \A n \in 1..MaxPages :
        FaithfulPages(i, n)
        => LET q == iter[i]
               all == list.data \o FetchedItems(q.responses)
           IN  /\ Len(q.fetches) <= n - 1
               /\ \A j \in 1..Len(q.fetches) : q.fetches[j] = j + 1
               /\ Len(q.yielded) <= Len(all)
               /\ q.yielded = SubSeq(all, 1, Len(q.yielded))
               /\ \A j \in 1..Len(q.responses) :
                     q.responses[j].data[1] \in { Items(j + 1, m) : m \in 0..MaxItems }
               /\ q.pc = "done"
                  => /\ Len(q.fetches) = n - 1
                     /\ Len(q.responses) = n - 1
                     /\ q.yielded = all

\* an iteration over three pages has ended: two fetches, at least one item
\* from each of the pages
C18_Witness ==
    \E i \in iterActive :
        /\ FaithfulPages(i, 3)
        /\ iter[i].pc = "done"
        /\ iter[i].fetches = <<2, 3>>
        /\ { iter[i].yielded[j].page : j \in 1..Len(iter[i].yielded) } = {1, 2, 3}

\* the fetched page reports no further pages: it has no cursor, or the page
\* number asked for has reached its pageCount
ReportsNoFurtherPages(response, page) ==
    \/ response.pagination = Undefined
    \/ page >= response.pagination[1].pageCount

\* C19: during the asynchronous iteration, as soon as a fetched page
\* reports no further pages or its data is absent, the iteration ends and
\* no further page is requested.
C19_StopsOnLastPageOrAbsentData ==
    \A i \in iterActive : \A j \in 1..Len(iter[i].responses) :
        (\/ ReportsNoFurtherPages(iter[i].responses[j], iter[i].fetches[j])
         \/ iter[i].responses[j].data = Undefined)
        => Len(iter[i].fetches) = j

\* C20 as stated: getPage(p) with p equal to the current page number of
\* the container returns that very container and calls no fetch function,
\* for every container.
C20_GetCurrentPageReturnsThis ==
    \A g \in gpActive :
        (gp[g].pc # "idle" /\ gp[g].pageNumber = CurrentPage(list))
        => /\ gp[g].pc = "returned"
           /\ gp[g].result.kind = "this"
           /\ gp[g].fetches = <<>>

\* C20 amended: the same for every container that has a fetch function; a
\* container without one returns null for every page number, its own
\* included; in both cases no fetch function is called.
C20_GetCurrentPageReturnsThisIfFetchable ==
    \A g \in gpActive :
        (gp[g].pc # "idle" /\ gp[g].pageNumber = CurrentPage(list))
        => /\ gp[g].pc = "returned"
           /\ gp[g].fetches = <<>>
           /\ list.fetchNextPage
                 => gp[g].result.kind = "this" /\ gp[g].result.value = list
           /\ ~list.fetchNextPage => gp[g].result.kind = "null"

\* getPage(2) on a container that holds page 2 of 3 and has a fetch function
C20_Witness ==
    \E g \in gpActive :
        /\ list.fetchNextPage
        /\ list.pagination = <<Cursor(2, 3)>>
        /\ gp[g].pc = "returned"
        /\ gp[g].pageNumber = 2
        /\ gp[g].result.kind = "this"

\* the items one iteration has been given so far: the held page, then the
\* pages fetched, in the order of their arrival
Arrived(i) == list.data \o FetchedItems(iter[i].responses)

\* C21: take(count) returns at most count items, and they are the first
\* items of the asynchronous iteration in page-arrival order, for every
\* count >= 0; it returns fewer than count items only when the iteration
\* has no more.
C21_TakeReturnsAtMostCount ==
    \A i \in iterActive :
        (iter[i].method = "take" /\ iter[i].pc = "done")
        => /\ Len(iter[i].items) <= iter[i].count
           /\ Len(iter[i].items) <= Len(Arrived(i))
           /\ iter[i].items = SubSeq(Arrived(i), 1, Len(iter[i].items))
           /\ Len(iter[i].items) < iter[i].count => iter[i].items = Arrived(i)

\* an item has completed the result of the call: take() has pushed the item
\* that brings it to count items, find() has its match
ResultComplete(q) ==
    \/ q.method = "take" /\ q.items # <<>> /\ Len(q.items) >= q.count
    \/ q.method = "find" /\ q.found # Undefined

\* C28: take() and find() stop fetching as soon as their result is
\* complete: take(n) with 1 <= n <= number of items of the held page, and
\* find() whose predicate matches an item of the held page, never call the
\* fetch function; in general the item that completes the result is on the
\* last page that was requested, and that request has been answered.
C28_NoFetchAfterResultComplete ==
    \A i \in iterActive :
        LET q == iter[i]
            before == list.data \o FetchedItems(SubSeq(q.responses, 1, Len(q.responses) - 1))
        IN  /\ (q.method = "take" /\ q.count >= 1 /\ q.count <= Len(list.data))
               => /\ q.fetches = <<>>
                  /\ q.pc = "done" => q.items = SubSeq(list.data, 1, q.count)
            /\ (q.method = "find" /\ \E n \in 1..Len(list.data) : Matches(q.predicate, list.data[n]))
               => /\ q.fetches = <<>>
                  /\ q.pc = "done" => /\ q.found # Undefined
                                      /\ Matches(q.predicate, q.found[1])
            /\ ResultComplete(q)
               => /\ q.pc = "done"
                  /\ Len(q.responses) = Len(q.fetches)
                  /\ q.fetches # <<>> => Len(q.yielded) > Len(before)
                  /\ Len(q.yielded) <= Len(Arrived(i))

\* take(2) on a held page of two items that has further pages and a fetch
\* function: done without a fetch
C28_Witness ==
    \E i \in iterActive :
        /\ iter[i].method = "take"
        /\ iter[i].count = 2
        /\ Len(list.data) = 2
        /\ HasMore(list)
        /\ list.fetchNextPage
        /\ iter[i].pc = "done"
        /\ iter[i].fetches = <<>>

\* the number of fetches the held cursor allows: totalPages - currentPage,
\* none when that is negative
FetchBudget == IF TotalPages(list) > CurrentPage(list)
               THEN TotalPages(list) - CurrentPage(list) ELSE 0

\* the fetches of one iteration: within the budget, for the consecutive
\* page numbers that follow the held page
BoundedConsecutiveFetches ==
    \A i \in iterActive :
        /\ Len(iter[i].fetches) <= FetchBudget
        /\ \A j \in 1..Len(iter[i].fetches) : iter[i].fetches[j] = CurrentPage(list) + j
        /\ Len(iter[i].responses) <= Len(iter[i].fetches)

\* C27: one asynchronous iteration performs at most totalPages -
\* currentPage fetches, whatever page counts the fetched pages report, for
\* the consecutive page numbers currentPage + 1, currentPage + 2, ..., each
\* once; and when every fetch resolves, the iteration ends.
C27_BoundedFetchesAndTermination ==
    /\ []BoundedConsecutiveFetches
    /\ <>(\A i \in iterActive : iter[i].pc = "done")

\* an iteration used its whole budget of two fetches although page 2
\* reported more pages than the held cursor
C27_Witness ==
    \E i \in iterActive :
        /\ list.pagination = <<Cursor(1, 2)>>
        /\ iter[i].pc = "done"
        /\ iter[i].fetches = <<2>>
        /\ iter[i].responses[1].pagination = <<Cursor(2, 3)>>

\* the fetch function answered the two iterations alike, as far as both asked
SameAnswers(i1, i2) ==
    \A j \in 1..Min(Len(iter[i1].responses), Len(iter[i2].responses)) :
        iter[i1].responses[j] = iter[i2].responses[j]

\* C25: each asynchronous iteration of a container starts again at the
\* first item of the held page, never fetches the held page, and fetches
\* every later page again: complete iterations of a container holding page
\* 1 of N call the fetch function N-1 times each, and two of them yield the
\* same sequence when the fetch function answers them alike.
C25_EachIterationStartsOver ==
    /\ \A i \in iterActive :
          /\ Len(iter[i].yielded) <= Len(Arrived(i))
          /\ iter[i].yielded = SubSeq(Arrived(i), 1, Len(iter[i].yielded))
          /\ \A j \in 1..Len(iter[i].fetches) : iter[i].fetches[j] # CurrentPage(list)
          /\ \A n \in 1..MaxPages :
                (FaithfulPages(i, n) /\ iter[i].pc = "done")
                => iter[i].fetches = [j \in 1..(n - 1) |-> j + 1]
    /\ \A i1, i2 \in iterActive :
          (iter[i1].pc = "done" /\ iter[i2].pc = "done" /\ SameAnswers(i1, i2))
          => /\ iter[i1].yielded = iter[i2].yielded
             /\ iter[i1].fetches = iter[i2].fetches

\* two complete iterations of a container holding page 1 of MaxPages: each
\* fetched every later page, and both yielded the same items
C25_Witness ==
    /\ FaithfulPages(1, MaxPages)
    /\ FaithfulPages(2, MaxPages)
    /\ iter[1].pc = "done"
    /\ iter[2].pc = "done"
    /\ Len(iter[1].fetches) + Len(iter[2].fetches) = 2 * (MaxPages - 1)
    /\ Len(iter[1].yielded) >= MaxPages
    /\ iter[1].yielded = iter[2].yielded

\* an iteration is where its own answers put it: it has yielded a prefix of
\* the items it was given, asked for the pages that follow the held one, and
\* it has ended only where its own last answer, or the held cursor, ends it
OnItsOwn(i) ==
    LET q == iter[i]
        last == Len(q.responses)
    IN  /\ Len(q.yielded) <= Len(Arrived(i))
        /\ q.yielded = SubSeq(Arrived(i), 1, Len(q.yielded))
        /\ \A j \in 1..Len(q.fetches) : q.fetches[j] = CurrentPage(list) + j
        /\ q.pc = "done"
           => /\ q.yielded = Arrived(i)
              /\ Len(q.fetches) = last
              /\ last = 0 => ~(HasMore(list) /\ list.fetchNextPage)
              /\ last > 0 => \/ NoFurtherPage(q.responses[last], q.fetches[last])
                              \/ q.fetches[last] >= TotalPages(list)

\* a step moves one iteration and leaves the other and the container alone
OneIterationPerStep ==
    /\ list' = list
    /\ \A i1, i2 \in iterActive :
          (i1 # i2 /\ iter'[i1] # iter[i1]) => iter'[i2] = iter[i2]

\* C29: two asynchronous iterations of one container, interleaved in any
\* way, do not affect each other: every step changes the local state of one
\* iteration only, and each iteration yields the sequence and requests the
\* page numbers that its own answers determine, as when it runs alone.
C29_InterleavedIterationsIndependent ==
    /\ [](\A i \in iterActive : OnItsOwn(i))
    /\ [][OneIterationPerStep]_vars

\* one iteration has ended after two pages while the other, which started
\* later, is still walking its held page
C29_Witness ==
    /\ iter[1].pc = "done"
    /\ Len(iter[1].fetches) = 1
    /\ Len(iter[1].yielded) = 2
    /\ iter[2].pc = "yield"
    /\ iter[2].phase = "held"
    /\ iter[2].yielded = <<>>
    /\ Len(list.data) = 1

(***************************************************************************)
(* Properties of the query string and the form body                        *)
(***************************************************************************)
\* the texts of the pairs of a sequence of pairs
PairTexts(pairs) == { pairs[n][2] : n \in 1..Len(pairs) }

\* the number of values of a sequence of entries that are neither null nor
\* undefined, counting the elements of arrays and, when nested is TRUE, the
\* leaves of nested objects (a nested object in a query is one value)
RECURSIVE EmittableValues(_, _)
EmittableValues(entries, nested) ==
    IF entries = <<>> THEN 0
    ELSE LET value == Head(entries).val
         IN  (IF Nullish(value) THEN 0
              ELSE IF value.t = "array"
              THEN Cardinality({ n \in 1..Len(value.parts) : ~Nullish(value.parts[n].val) })
              ELSE IF value.t = "object" /\ nested
              THEN EmittableValues(value.parts, nested)
              ELSE 1)
             + EmittableValues(Tail(entries), nested)

\* C22: request() emits no query-string pair and no form-body pair for a
\* null or undefined value, be it a top-level value, a leaf of a nested
\* object or an element of an array; the values false and 0 are emitted.
\* (No string of the inputs reads null or undefined, so a pair with such a
\* text stems from a null or undefined value.)
C22_NoPairForNullOrUndefined ==
    \A e \in enActive :
        LET q == en[e]
            formPairs == IF q.formBody = Undefined THEN <<>> ELSE q.formBody[1]
        IN  q.pc = "built"
            => /\ <<"null">> \notin PairTexts(q.queryPairs) \cup PairTexts(formPairs)
               /\ <<"undefined">> \notin PairTexts(q.queryPairs) \cup PairTexts(formPairs)
               /\ q.query # Undefined
                     => Len(q.queryPairs) = EmittableValues(q.query[1], FALSE)
               /\ q.formBody # Undefined
                     => Len(formPairs) = EmittableValues(q.body[1], TRUE)

(***************************************************************************)
(* Properties of the error raised for a failed response                    *)
(***************************************************************************)
\* the last transport call of request r returned a response that is not ok
\* and whose body is JSON, and the try block has acted on it
NonOkJsonResponse(r) ==
    /\ req[r].pc \in {"rejected", "backoff", "loop"}
    /\ req[r].outcome.kind = "response"
    /\ ~ResponseOk(req[r].outcome.status)
    /\ req[r].outcome.body.json # "text"

\* C23: when the transport returns a non-2xx response with a JSON body, the
\* error raised for that attempt is an XMoneyError whose statusCode is the
\* response's HTTP status, whose code is the body's code, whose errors are
\* the body's error array and whose message is the body's message, or
\* 'Request failed' when the body has none (an empty message counts as none).
C23_ErrorCarriesResponseDetails ==
    \A r \in active :
        NonOkJsonResponse(r)
        => LET o == req[r].outcome
               e == req[r].lastError
           IN  /\ e.type = "XMoneyError"
               /\ e.statusCode = <<o.status>>
               /\ e.code = o.body.code
               /\ e.errors = o.body.error
               /\ e.message = IF StrTruthy(o.body.message) THEN o.body.message[1]
                              ELSE "Request failed"

(***************************************************************************)
(* Frame properties of request()                                           *)
(***************************************************************************)
\* the options of every request that was made are an object a caller passed
CallerOptionsIntact ==
    \A r \in active : req[r].pc # "idle" => req[r].options \in OptionInputs

\* a step leaves the configuration and the options of the requests made as
\* they are
ConfigAndOptionsKept ==
    /\ config' = config
    /\ \A r \in active : req[r].pc # "idle" => req'[r].options = req[r].options

\* C26: the configuration is never changed after construction: after any
\* sequence of request() calls, successful or failed, it equals its value at
\* construction; and request() does not modify the caller's options object
\* (its query, body and headers): the transformed dates, the query pairs,
\* the headers and the encoded body go into objects of the call.
C26_ConfigAndOptionsNeverModified ==
    /\ []CallerOptionsIntact
    /\ [][ConfigAndOptionsKept]_vars

\* a request on a client without a configured retry count was rejected after
\* retries; its query holds a Date that the transport received as a string,
\* and its transport headers carry entries the caller's headers lack
C26_Witness ==
    /\ req[1].pc = "rejected"
    /\ req[1].calls = 3
    /\ Get(config, "maxRetries") = Undefined
    /\ req[1].options.query # Undefined
    /\ req[1].options.query[1][1].val.t = "date"
    /\ req[1].sent.query[1][2] = <<"2024-01-15T10:30:00", "+00:00">>
    /\ Len(req[1].sent.query) = 3
    /\ req[1].options.body # Undefined
    /\ req[1].sent.body = Undefined
    /\ req[1].options.headers = EmptyObj
    /\ req[1].sent.headers # EmptyObj

(***************************************************************************)
(* Properties of two requests outstanding at once                          *)
(***************************************************************************)
\* the attempt count, the delays and the final outcome of request r are
\* what its own transport results determine
OwnResult(r) ==
    LET q == req[r]
        t == TryBlock(q.outcome, q.calls)
    IN  /\ q.calls <= q.maxRetries
        /\ q.failures <= q.calls
        /\ q.failures = 0 => q.lastError = NoError
        /\ q.lastError # NoError => q.lastError.at \in 1..q.calls
        /\ q.delays = [a \in 1..Len(q.delays) |-> <<a, BackoffDelay(a)>>]
        /\ Len(q.delays) <= q.failures
        /\ q.pc = "resolved"
              => /\ q.outcome # NoOutcome /\ t.ok /\ q.result = t.data
                 /\ q.calls = q.failures + 1
                 /\ Len(q.delays) = q.failures
        /\ q.pc = "rejected"
              => /\ q.outcome # NoOutcome /\ ~t.ok /\ q.error = t.error
                 /\ q.calls = q.failures
                 /\ Len(q.delays) = q.failures - 1
        /\ q.pc = "backoff"
              => /\ q.outcome # NoOutcome /\ ~t.ok /\ q.lastError = t.error
                 /\ Len(q.delays) = q.calls

\* a step changes the state of one request only
OneRequestPerStep ==
    \A r1, r2 \in active :
        (r1 # r2 /\ req'[r1] # req[r1]) => req'[r2] = req[r2]

\* a transport call of a request starts from the loop test only, after the
\* call before it has completed and the backoff that followed has elapsed
AttemptsSequential ==
    \A r \in active :
        req'[r].calls # req[r].calls
        => /\ req'[r].calls = req[r].calls + 1
           /\ req[r].pc = "loop"
           /\ req'[r].pc = "await"
           /\ req[r].calls = 0 \/ req[r].outcome # NoOutcome
           /\ Len(req[r].delays) = req[r].calls

\* C24: two request() calls outstanding at the same time on one client are
\* independent under every interleaving: each call's attempt count, backoff
\* delays and final outcome depend on its own transport results only, and
\* within one call attempt a+1 starts only after attempt a has completed and
\* its backoff has elapsed, so that no two attempts of a call are in flight.
C24_OutstandingRequestsIndependent ==
    /\ [](\A r \in active : OwnResult(r))
    /\ [][OneRequestPerStep /\ AttemptsSequential]_vars

\* the first request waits for its second backoff while the transport call
\* of the second request, which failed once, is in flight
C24_Witness ==
    /\ req[1].pc = "backoff"
    /\ req[1].calls = 2
    /\ req[2].pc = "await"
    /\ req[2].calls = 2
    /\ req[2].lastError.message = "Network error"
    /\ req[1].lastError.message = "Bad request"

(***************************************************************************)
(* Properties of createOrderWithSavedCard                                  *)
(***************************************************************************)
\* the call of q has ended in the given way, or its innermost call has and
\* the calls that await it have yet to resume
Ends(q, how) == q.pc = how \/ (q.pc = "unwind" /\ q.inner = how)

\* C30: one top-level createOrderWithSavedCard call, whatever it passes for
\* iteration, sends at most 2 create-order requests: a second request is sent only when the first
\* response carries a soft-decline error, and it is the first request with
\* transactionOption set to the JSON text of {isSoftDecline: 'yes'}; a
\* second soft decline ends the call with the error 'Maximum iterations
\* limit exceeded for create order' and no third request; a response with
\* errors none of which is a soft decline, and which is no created order,
\* ends the call at once with the message of its first error.
C30_AtMostTwoCreateOrderRequests ==
    \A o \in osActive :
        LET q == os[o]
            sent == Len(q.requests)
            got == Len(q.responses)
        IN  /\ sent <= 2
            /\ got <= sent
            /\ q.outer <= 2
            /\ q.pc \in {"resolved", "rejected"} => q.outer = 0
            /\ sent >= 1 => q.requests[1] = q.input
            /\ sent = 2
                  => /\ HasSoftDecline(q.responses[1])
                     /\ q.requests[2] =
                           [q.input EXCEPT !.transactionOption = <<SoftDeclineOption>>]
            /\ (got = 2 /\ ~OrderCreated(q.responses[2]) /\ HasSoftDecline(q.responses[2]))
                  => /\ Ends(q, "rejected")
                     /\ q.error = "Maximum iterations limit exceeded for create order"
            /\ \A n \in 1..got :
                  LET order == q.responses[n]
                  IN  (/\ ~OrderCreated(order)
                       /\ ~HasSoftDecline(order)
                       /\ order.error # Undefined
                       /\ order.error[1] # <<>>)
                      => /\ n = got
                         /\ sent = n
                         /\ Ends(q, "rejected")
                         /\ q.error = order.error[1][1].message
====
